---- MODULE Spec2Model ----
(***************************************************************************)
(* A model of the LO compiler core (src/src/parser.rs): the module context *)
(* built by the top-level parser and consumed by finalize, the parsing of  *)
(* function bodies (return / throw / defer), the lowering of for loops,    *)
(* break / continue label computation, catch, and struct definitions and   *)
(* literals.  Each part is a specification of its own over its own group   *)
(* of variables; the other groups stay at their initial values.            *)
(***************************************************************************)
EXTENDS Integers, Sequences, FiniteSets, TLC

VARIABLES
    \* ---- module context (ModuleContext) and finalize ----
    inspect_mode,        \* ctx.inspect_mode
    m_pc,                \* position of the driver: parse / finalize phases
    decls,               \* number of top-level declarations parsed so far
    string_pool,         \* ctx.string_pool : content -> offset
    data_size,           \* ctx.data_size
    fn_defs,             \* ctx.fn_defs : name -> [local, fn_index]
    fn_exports,          \* ctx.fn_exports : sequence of [in_name, out_name]
    fn_bodies,           \* ctx.fn_bodies : pending bodies
    globals,             \* ctx.globals : name -> [index, value]
    constants,           \* ctx.constants : name -> instr
    imported_fns_count,  \* ctx.imported_fns_count
    wasm_module,         \* ctx.wasm_module
    str_uses,            \* history: every result of build_const_str_instr
    decl_error,          \* the message that rejected a top-level declaration, or ""
    \* ---- struct definitions and struct literals ----
    s_pc,                \* "top" while declarations are accepted, "error" after one
    struct_defs,         \* ctx.struct_defs : name -> [fields, fully_defined]
    type_scope,          \* ctx.type_scope : name -> LoType
    literal,             \* the last struct literal handed to parse_primary
    cur_struct,          \* the struct whose fields are being parsed: name, fields, slot
    last_type,           \* the type named last in a field and the outcome
    macros,              \* ctx.macros : name -> [type_params]
    s_error,             \* the message that rejected a struct, type or macro, or ""
    \* ---- one function body being parsed and lowered (FnContext, BlockContents) ----
    f_pc,                \* "body" while statements are parsed, then "done" or "error"
    fn_output,           \* fn_ctx.lo_fn_type.output
    defers,              \* fn_ctx.defers
    contents,            \* BlockContents of the function's block
    stmts,               \* number of top-level statements parsed
    next_loc,            \* source position of the next statement
    defer_log,           \* history: [loc, expr] of every defer registered
    f_error,             \* the message of the error that ended the function, or ""
    f_codes,             \* the code entries pushed for the function
    last_stmt,           \* the statement parsed last and whether it was accepted
    \* ---- one `for` loop: its parse and the run of the code it lowers to ----
    for_pc,              \* "parse", then where the lowered code is: "init", "check", ...
    counter_type,        \* type of the start count
    end_type,            \* type of the end count
    start_count,         \* A
    end_count,           \* B
    counter,             \* the value of the counter local
    body_runs,           \* how many times BODY has run
    \* ---- break and continue in nested blocks ----
    b_pc,                \* "parsing" or "panic"
    chain,               \* block_type of ctx.block and its parents, innermost last
    labels,              \* labels of the emitted structured instructions, innermost last
    frames,              \* per open construct: how many blocks and labels it opened
    branch,              \* the last Branch emitted, with the labels around it
    \* ---- catch ----
    c_pc,                \* "parsing" or "error"
    fn_locals,           \* locals of the function's block: name -> index
    locals_last_index,   \* fn_ctx.locals_last_index
    catches,             \* history: one record per catch expression parsed
    \* ---- include ----
    i_pc,                \* "start", "parsing", "done" or "error"
    included_modules,    \* ctx.included_modules: resolved path -> file index
    stack,               \* the active parse_file_tokens calls: [path, tokens left]
    file_contents,       \* the contents of the files read so far
    reads,               \* history: the resolved paths read, in order
    decl_log,            \* history: the file of every declaration parsed
    \* ---- `as` casts ----
    cast_pc,             \* "parsing" or "error"
    cast_ctx,            \* "body" for a function body, "const" for a constant expression
    cast_expr,           \* the expression parsed so far
    last_cast,           \* the last cast parsed: operand, wanted type and outcome
    \* ---- symbol lookup ----
    sym_tables,          \* the names in ctx.module: constants, globals, fn_defs, struct_defs
    block_stack,         \* the chain of blocks from the function block to ctx.block
    sym_last_index,      \* fn_ctx.locals_last_index
    looked_up,           \* the outcome of the symbol parsed last in ctx.block
    \* ---- memory declarations ----
    memories,            \* ctx.memories: memory name -> memory index
    mem_error,           \* the message of the error raised by a memory declaration, or ""
    mem_last,            \* the memory declarations parsed: how many, and whether the last was exported
    \* ---- the driver (lib.rs) ----
    mode,                \* the CompilerMode of the run
    d_pc,                \* "run" while start() runs, then "exited"
    binary_out,          \* the binaries written to stdout
    stderr,              \* what was written to the error stream
    exit_code,           \* the exit code of the process, -1 while it runs
    \* ---- the locals of one function body and their slots ----
    a_pc,                \* "body" while the body is parsed, "done" after finalize pushed its code
    fn_params,           \* the types of the parameters of the function
    fn_ctx,              \* FnContext: locals_last_index and non_arg_wasm_locals
    local_slots,         \* history: [index, count] of every local and temporary allocated
    wasm_locals          \* WasmFn.locals of the code pushed for the function

modVars == <<inspect_mode, m_pc, decls, string_pool, data_size, fn_defs,
             fn_exports, fn_bodies, globals, constants, imported_fns_count,
             wasm_module, str_uses, decl_error>>

structVars == <<s_pc, struct_defs, type_scope, literal, cur_struct, last_type,
                macros, s_error>>

fnVars == <<f_pc, fn_output, defers, contents, stmts, next_loc, defer_log,
            f_error, f_codes, last_stmt>>

forVars == <<for_pc, counter_type, end_type, start_count, end_count, counter, body_runs>>

branchVars == <<b_pc, chain, labels, frames, branch>>

catchVars == <<c_pc, fn_locals, locals_last_index, catches>>

includeVars == <<i_pc, included_modules, stack, file_contents, reads, decl_log>>

castVars == <<cast_pc, cast_ctx, cast_expr, last_cast>>

symVars == <<sym_tables, block_stack, sym_last_index, looked_up>>

memVars == <<memories, mem_error, mem_last>>

driverVars == <<mode, d_pc, binary_out, stderr, exit_code>>

allocVars == <<a_pc, fn_params, fn_ctx, local_slots, wasm_locals>>

vars == <<modVars, structVars, fnVars, forVars, branchVars, catchVars, includeVars,
          castVars, symVars,
      memVars,
      driverVars,
      allocVars>>

\* what an action of one part leaves alone
notMod ==
    <<structVars, fnVars, forVars, branchVars, catchVars, includeVars, castVars, symVars,
      memVars,
      driverVars,
      allocVars>>
notStruct ==
    <<modVars, fnVars, forVars, branchVars, catchVars, includeVars, castVars, symVars,
      memVars,
      driverVars,
      allocVars>>
notFn ==
    <<modVars, structVars, forVars, branchVars, catchVars, includeVars, castVars, symVars,
      memVars,
      driverVars,
      allocVars>>
notFor ==
    <<modVars, structVars, fnVars, branchVars, catchVars, includeVars, castVars, symVars,
      memVars,
      driverVars,
      allocVars>>
notBranch ==
    <<modVars, structVars, fnVars, forVars, catchVars, includeVars, castVars, symVars,
      memVars,
      driverVars,
      allocVars>>
notInclude ==
    <<modVars, structVars, fnVars, forVars, branchVars, catchVars, castVars, symVars,
      memVars,
      driverVars,
      allocVars>>
notCast ==
    <<modVars, structVars, fnVars, forVars, branchVars, catchVars, includeVars, symVars,
      memVars,
      driverVars,
      allocVars>>
notModMem ==
    <<structVars, fnVars, forVars, branchVars, catchVars, includeVars, castVars, symVars,
      driverVars,
      allocVars>>
notDriver ==
    <<modVars, structVars, fnVars, forVars, branchVars, catchVars, includeVars,
      castVars, symVars, memVars,
      allocVars>>
notAlloc ==
    <<modVars, structVars, fnVars, forVars, branchVars, catchVars, includeVars,
      castVars, symVars, memVars, driverVars>>
notSym ==
    <<modVars, structVars, fnVars, forVars, branchVars, catchVars, includeVars,
      castVars,
      memVars,
      driverVars,
      allocVars>>
notCatch ==
    <<modVars, structVars, fnVars, forVars, branchVars, includeVars, castVars, symVars,
      memVars,
      driverVars,
      allocVars>>

----------------------------------------------------------------------------
\* Generic helpers

EmptyMap == [x \in {} |-> 0]

MapPut(m, k, v) == [x \in (DOMAIN m) \cup {k} |-> IF x = k THEN v ELSE m[x]]

RECURSIVE SumSeq(_)
SumSeq(s) == IF s = <<>> THEN 0 ELSE Head(s) + SumSeq(Tail(s))

RECURSIVE SumLen(_)
\* total byte length of a set of string contents
SumLen(S) ==
    IF S = {} THEN 0
    ELSE LET x == CHOOSE y \in S : TRUE IN Len(x) + SumLen(S \ {x})

Reverse(s) == [i \in 1..Len(s) |-> s[Len(s) + 1 - i]]

----------------------------------------------------------------------------
\* Bounds and input alphabets of the module-context specification

MaxDecls == 3
MaxBodyLen == 2

FnNames == {"f", "g"}
GlobalNames == {"G", "H"}
ConstNames == {"K"}
Strings == {"a", "bc"}

\* dbg "MSG" pools the formatted text "<loc> - MSG" (parser.rs 1141-1145)
DbgMessage(loc, message) == loc \o " - " \o message

\* what a function body hands to build_const_str_instr when it is parsed
BodyItems == Strings \cup {DbgMessage("m.lo:1:1", "a")}

Bodies == UNION {[1..n -> BodyItems] : n \in 0..MaxBodyLen}

----------------------------------------------------------------------------
\* Module context: operations of the top-level parser

\* *ctx.data_size.borrow_mut() += string_len (parser.rs 1912)
data_size_add_one(size, string_len) == size + 1

data_size_add(size, string_len) == size + string_len

\* build_const_str_instr (parser.rs 1900-1934) on the part of the context it
\* touches, st = [string_pool, data_size, datas, uses]; the instruction it
\* returns is (U32Const string_ptr, U32Const string_len) and is recorded in uses
build_const_str_instr_realloc(st, value) ==
    [string_pool |-> MapPut(st.string_pool, value, st.data_size),
     data_size   |-> st.data_size + Len(value),
     datas       |-> Append(st.datas, [offset |-> st.data_size, bytes |-> value,
                                       by |-> "string_pool"]),
     uses        |-> Append(st.uses, [value |-> value, string_ptr |-> st.data_size,
                                          string_len |-> Len(value)])]

build_const_str_instr(st, value) ==
    IF value \in DOMAIN st.string_pool
    THEN [st EXCEPT !.uses = Append(@, [value |-> value,
                                        string_ptr |-> st.string_pool[value],
                                        string_len |-> Len(value)])]
    ELSE [string_pool |-> MapPut(st.string_pool, value, st.data_size),
          data_size   |-> data_size_add(st.data_size, Len(value)),
          datas       |-> Append(st.datas, [offset |-> st.data_size, bytes |-> value,
                                            by |-> "string_pool"]),
          uses        |-> Append(st.uses, [value |-> value, string_ptr |-> st.data_size,
                                               string_len |-> Len(value)])]

StrState == [string_pool |-> string_pool, data_size |-> data_size,
             datas |-> wasm_module.datas, uses |-> str_uses]

RECURSIVE BuildAll(_, _)
\* the string literals and dbg messages of a block, in source order
BuildAll(st, items) ==
    IF items = <<>> THEN st
    ELSE BuildAll(build_const_str_instr(st, Head(items)), Tail(items))

SetStrState(st) ==
    /\ string_pool' = st.string_pool
    /\ data_size' = st.data_size
    /\ str_uses' = st.uses

\* FnDef::get_absolute_index: imports come first, local functions follow
get_absolute_index(fn_def, imported) ==
    IF fn_def.local THEN imported + fn_def.fn_index ELSE fn_def.fn_index

\* lower_expr on a constant expression: U32ConstLazy reads data_size when lowered
lower_expr(value, ds) ==
    IF value.op = "U32ConstLazy" THEN <<[op |-> "I32Const", value |-> ds]>>
    ELSE <<[op |-> "I32Const", value |-> value.value]>>

ParseError(message) ==
    /\ m_pc' = "error"
    /\ decls' = decls + 1
    /\ decl_error' = message

\* ctx.fn_bodies.push(FnBody { fn_index, .. })  (parser.rs 691-697)
PushFnBodyDropped(bodies, fn_index) == bodies

PushFnBody(bodies, fn_index) == Append(bodies, [fn_index |-> fn_index])

\* ctx.fn_defs.contains_key(&fn_decl.fn_name) (parser.rs 310, 660)
fn_defs_contains_key_never(defs, fn_name) == FALSE

fn_defs_contains_key(defs, fn_name) == fn_name \in DOMAIN defs

\* `fn NAME ...` and `export fn NAME ...`
ParseFnDef(name, exported) ==
    /\ m_pc = "parse" /\ decls < MaxDecls
    /\ IF fn_defs_contains_key(fn_defs, name)
       THEN /\ ParseError("Cannot redefine function: " \o name)
            /\ UNCHANGED <<fn_defs, fn_exports, fn_bodies, wasm_module>>
       ELSE LET fn_index == wasm_module.functions IN
            /\ fn_exports' = IF exported
                             THEN Append(fn_exports, [in_name |-> name, out_name |-> name])
                             ELSE fn_exports
            /\ wasm_module' = [wasm_module EXCEPT !.functions = @ + 1]
            /\ fn_defs' = MapPut(fn_defs, name, [local |-> TRUE, fn_index |-> fn_index])
            /\ fn_bodies' = PushFnBody(fn_bodies, fn_index)
            /\ m_pc' = m_pc /\ decls' = decls + 1 /\ UNCHANGED decl_error
    /\ UNCHANGED notMod
    /\ UNCHANGED <<inspect_mode, string_pool, data_size, globals, constants,
                   imported_fns_count, str_uses>>

\* `import from "MODULE" { fn NAME ...; }`
ParseImport(name) ==
    /\ m_pc = "parse" /\ decls < MaxDecls
    /\ IF fn_defs_contains_key(fn_defs, name)
       THEN /\ ParseError("Cannot redefine function: " \o name)
            /\ UNCHANGED <<fn_defs, imported_fns_count, wasm_module>>
       ELSE /\ imported_fns_count' = imported_fns_count + 1
            /\ fn_defs' = MapPut(fn_defs, name,
                                 [local |-> FALSE, fn_index |-> imported_fns_count])
            /\ wasm_module' = [wasm_module EXCEPT !.imports = Append(@, name)]
            /\ m_pc' = m_pc /\ decls' = decls + 1 /\ UNCHANGED decl_error
    /\ UNCHANGED notMod
    /\ UNCHANGED <<inspect_mode, string_pool, data_size, fn_exports, fn_bodies,
                   globals, constants, str_uses>>

\* `export existing fn NAME as "EXTERN"`
ParseExportExisting(in_name, out_name) ==
    /\ m_pc = "parse" /\ decls < MaxDecls
    /\ IF in_name \notin DOMAIN fn_defs
       THEN ParseError("Cannot export unknown function " \o in_name) /\ UNCHANGED fn_exports
       ELSE /\ fn_exports' = Append(fn_exports, [in_name |-> in_name,
                                                 out_name |-> out_name])
            /\ m_pc' = m_pc /\ decls' = decls + 1 /\ UNCHANGED decl_error
    /\ UNCHANGED notMod
    /\ UNCHANGED <<inspect_mode, string_pool, data_size, fn_defs, fn_bodies, globals,
                   constants, imported_fns_count, wasm_module, str_uses>>

\* the integer-valued constant expressions a global is initialised with
GlobalValues == {[op |-> "U32ConstLazy"], [op |-> "U32Const", value |-> 7]}

\* index: ctx.globals.len() (parser.rs 387)
globals_len_first(defs) == 0

globals_len(defs) == Cardinality(DOMAIN defs)

\* `let NAME = CONSTEXPR`
ParseLet(name, value) ==
    /\ m_pc = "parse" /\ decls < MaxDecls
    /\ IF name \in DOMAIN globals
       THEN ParseError("Cannot redefine global: " \o name) /\ UNCHANGED <<globals, wasm_module>>
       ELSE /\ globals' = MapPut(globals, name,
                                 [index |-> globals_len(globals), value |-> value])
            /\ wasm_module' = [wasm_module EXCEPT
                                  !.globals = Append(@, [initial_value |-> <<>>])]
            /\ m_pc' = m_pc /\ decls' = decls + 1 /\ UNCHANGED decl_error
    /\ UNCHANGED notMod
    /\ UNCHANGED <<inspect_mode, string_pool, data_size, fn_defs, fn_exports, fn_bodies,
                   constants, imported_fns_count, str_uses>>

\* `const NAME = "STRING"`: the literal is pooled while the expression is parsed,
\* before the duplicate check
ParseConst(name, value) ==
    /\ m_pc = "parse" /\ decls < MaxDecls
    /\ LET st == build_const_str_instr(StrState, value) IN
       /\ SetStrState(st)
       /\ wasm_module' = [wasm_module EXCEPT !.datas = st.datas]
       /\ IF name \in DOMAIN constants
          THEN ParseError("Duplicate constant: " \o name) /\ UNCHANGED constants
          ELSE /\ constants' = MapPut(constants, name, [op |-> "Str", value |-> value])
               /\ m_pc' = m_pc /\ decls' = decls + 1 /\ UNCHANGED decl_error
    /\ UNCHANGED notMod
    /\ UNCHANGED <<inspect_mode, fn_defs, fn_exports, fn_bodies, globals,
                   imported_fns_count>>

\* `memory @OFFSET = "BYTES"` (parse_memory, parser.rs 585-602)
ParseMemoryData(offset, bytes) ==
    /\ m_pc = "parse" /\ decls < MaxDecls
    /\ wasm_module' = [wasm_module EXCEPT
                          !.datas = Append(@, [offset |-> offset, bytes |-> bytes,
                                               by |-> "memory"])]
    /\ decls' = decls + 1
    /\ UNCHANGED notMod
    /\ UNCHANGED <<inspect_mode, decl_error, m_pc, string_pool, data_size, fn_defs, fn_exports,
                   fn_bodies, globals, constants, imported_fns_count, str_uses>>

\* `memory { min_pages: N, max_pages: M }` and `export memory { .. }`
\* (parse_memory, parser.rs 604-649); the `@` form is ParseMemoryData
DuplicateMemory == "Duplicate memory definition: memory"

MemoryLimits == {[min |-> 0, has_max |-> FALSE, max |-> 0],
                 [min |-> 1, has_max |-> TRUE, max |-> 2]}

\* ctx.memories.contains_key(&memory_name) (parser.rs 605)
memories_contains_key_never(mems, memory_name) == FALSE

memories_contains_key(mems, memory_name) == memory_name \in DOMAIN mems

ParseMemory(exported, memory_limits) ==
    /\ m_pc = "parse" /\ decls < MaxDecls
    /\ mem_last' = [n |-> mem_last.n + 1, exported |-> exported]
    /\ IF memories_contains_key(memories, "memory")
       THEN /\ ParseError(DuplicateMemory)
            /\ mem_error' = DuplicateMemory
            /\ UNCHANGED <<memories, wasm_module>>
       ELSE LET memory_index == Len(wasm_module.memories) IN
            /\ memories' = MapPut(memories, "memory", memory_index)
            /\ wasm_module' =
                  [wasm_module EXCEPT
                      !.memories = Append(@, memory_limits),
                      !.exports = IF exported
                                  THEN Append(@, [export_type |-> "Mem",
                                                  export_name |-> "memory",
                                                  exported_item_index |-> memory_index])
                                  ELSE @]
            /\ m_pc' = m_pc /\ decls' = decls + 1 /\ UNCHANGED decl_error
            /\ UNCHANGED mem_error
    /\ UNCHANGED notModMem
    /\ UNCHANGED <<inspect_mode, string_pool, data_size, fn_defs, fn_exports, fn_bodies,
                   globals, constants, imported_fns_count, str_uses>>

NoMemory == [n |-> 0, exported |-> FALSE]

MemIdle ==
    /\ memories = EmptyMap
    /\ mem_error = ""
    /\ mem_last = NoMemory

----------------------------------------------------------------------------
\* finalize (parser.rs 86-208), one action per phase

\* push function exports
FinalizeExports ==
    /\ m_pc = "parse"
    /\ m_pc' = "bodies"
    /\ wasm_module' =
          IF inspect_mode THEN wasm_module
          ELSE [wasm_module EXCEPT !.exports = @ \o
                  [i \in 1..Len(fn_exports) |->
                     [export_type |-> "Func",
                      export_name |-> fn_exports[i].out_name,
                      exported_item_index |->
                          get_absolute_index(fn_defs[fn_exports[i].in_name],
                                             imported_fns_count)]]]
    /\ UNCHANGED notMod
    /\ UNCHANGED <<inspect_mode, decl_error, decls, string_pool, data_size, fn_defs, fn_exports,
                   fn_bodies, globals, constants, imported_fns_count, str_uses>>

\* parse_primary on `NAME(..)` where NAME is a function (parser.rs 1550-1591),
\* with the function's own index instead of its absolute one
parse_fn_call_own_index(defs, imported, fn_name) ==
    [op |-> "Call", fn_name |-> fn_name, fn_index |-> defs[fn_name].fn_index]

\* parse_primary on `NAME(..)` where NAME is a function (parser.rs 1550-1591)
parse_fn_call(defs, imported, fn_name) ==
    [op |-> "Call", fn_name |-> fn_name,
     fn_index |-> get_absolute_index(defs[fn_name], imported)]

\* ctx.wasm_module.codes.push(WasmFn { .. }) (parser.rs 178-181)
codes_push_front(codes, wasm_fn) == <<wasm_fn>> \o codes

codes_push(codes, wasm_fn) == Append(codes, wasm_fn)

\* push function codes: the next pending body is parsed and lowered; its tokens
\* are not looked at before this point, so the body is drawn here: the string
\* literals and dbg messages in it, the names it calls, and whether it reads
\* __DATA_SIZE__ (parse_primary, parser.rs 981-985); lower_exprs runs on the
\* body right after it is parsed (parser.rs 176-177)
LowerBody(body, calls, missing_return, has_data_size) ==
    /\ m_pc = "bodies" /\ fn_bodies # <<>>
    /\ LET st == BuildAll(StrState, body) IN
       /\ SetStrState(st)
       /\ IF missing_return \/ \E k \in DOMAIN calls : calls[k] \notin DOMAIN fn_defs
          THEN /\ m_pc' = "error"
               /\ wasm_module' = [wasm_module EXCEPT !.datas = st.datas]
               /\ UNCHANGED fn_bodies
          ELSE /\ m_pc' = m_pc
               /\ wasm_module' = [wasm_module EXCEPT
                                     !.datas = st.datas,
                                     !.codes = codes_push(@,
                                        [fn_index |-> Head(fn_bodies).fn_index,
                                         calls |-> [k \in DOMAIN calls |->
                                            parse_fn_call(fn_defs, imported_fns_count,
                                                          calls[k])],
                                         lazy |-> IF has_data_size
                                                  THEN lower_expr([op |-> "U32ConstLazy"],
                                                                  st.data_size)
                                                  ELSE <<>>])]
               /\ fn_bodies' = Tail(fn_bodies)
    /\ UNCHANGED notMod
    /\ UNCHANGED <<inspect_mode, decl_error, decls, fn_defs, fn_exports, globals, constants,
                   imported_fns_count>>

\* a body without __DATA_SIZE__
LowerFnBody(body, calls, missing_return) == LowerBody(body, calls, missing_return, FALSE)

\* lower global values, done while function bodies are still pending
LowerGlobalsBeforeBodies ==
    /\ m_pc = "bodies"
    /\ m_pc' = IF fn_bodies = <<>> THEN "debug" ELSE m_pc
    /\ wasm_module' =
          IF inspect_mode THEN wasm_module
          ELSE [wasm_module EXCEPT !.globals =
                  [i \in 1..Len(wasm_module.globals) |->
                     LET name == CHOOSE n \in DOMAIN globals : globals[n].index = i - 1
                     IN [initial_value |->
                            wasm_module.globals[i].initial_value
                               \o lower_expr(globals[name].value, data_size)]]]
    /\ UNCHANGED notMod
    /\ UNCHANGED <<inspect_mode, decl_error, decls, string_pool, data_size, fn_defs, fn_exports,
                   fn_bodies, globals, constants, imported_fns_count, str_uses>>

\* lower global values
LowerGlobals ==
    /\ m_pc = "bodies" /\ fn_bodies = <<>>
    /\ m_pc' = "debug"
    /\ wasm_module' =
          IF inspect_mode THEN wasm_module
          ELSE [wasm_module EXCEPT !.globals =
                  [i \in 1..Len(wasm_module.globals) |->
                     LET name == CHOOSE n \in DOMAIN globals : globals[n].index = i - 1
                     IN [initial_value |->
                            wasm_module.globals[i].initial_value
                               \o lower_expr(globals[name].value, data_size)]]]
    /\ UNCHANGED notMod
    /\ UNCHANGED <<inspect_mode, decl_error, decls, string_pool, data_size, fn_defs, fn_exports,
                   fn_bodies, globals, constants, imported_fns_count, str_uses>>

\* write_debug_info (parser.rs 212-247): the function-name subsection
WriteDebugInfo ==
    /\ m_pc = "debug"
    /\ m_pc' = "done"
    /\ wasm_module' =
          IF inspect_mode THEN wasm_module
          ELSE [wasm_module EXCEPT !.custom =
                  [written |-> TRUE,
                   names |-> [k \in 1..wasm_module.functions |->
                      LET fn_index == imported_fns_count + k - 1 IN
                      [fn_index |-> fn_index,
                       fn_name |-> CHOOSE n \in DOMAIN fn_defs :
                           get_absolute_index(fn_defs[n], imported_fns_count) = fn_index]]]]
    /\ UNCHANGED notMod
    /\ UNCHANGED <<inspect_mode, decl_error, decls, string_pool, data_size, fn_defs, fn_exports,
                   fn_bodies, globals, constants, imported_fns_count, str_uses>>

ModInit ==
    /\ inspect_mode \in BOOLEAN
    /\ m_pc = "parse"
    /\ decls = 0
    /\ string_pool = EmptyMap
    /\ data_size = 0
    /\ fn_defs = EmptyMap
    /\ fn_exports = <<>>
    /\ fn_bodies = <<>>
    /\ globals = EmptyMap
    /\ constants = EmptyMap
    /\ imported_fns_count = 0
    /\ wasm_module = [functions |-> 0, imports |-> <<>>, exports |-> <<>>,
                      globals |-> <<>>, codes |-> <<>>, datas |-> <<>>,
                      memories |-> <<>>,
                      custom |-> [written |-> FALSE, names |-> <<>>]]
    /\ str_uses = <<>>
    /\ decl_error = ""

ModNext ==
    \/ \E name \in FnNames, exported \in BOOLEAN : ParseFnDef(name, exported)
    \/ \E name \in FnNames : ParseImport(name)
    \/ \E name \in FnNames : ParseExportExisting(name, "x")
    \/ \E name \in GlobalNames, value \in GlobalValues : ParseLet(name, value)
    \/ \E name \in ConstNames, value \in Strings : ParseConst(name, value)
    \/ \E bytes \in Strings : ParseMemoryData(0, bytes)
    \/ FinalizeExports
    \/ \E body \in Bodies, missing_return \in BOOLEAN :
          LowerFnBody(body, <<>>, missing_return)
    \/ LowerGlobals
    \/ WriteDebugInfo


\* memory declarations among function definitions
MemNext ==
    \/ \E exported \in BOOLEAN, memory_limits \in MemoryLimits :
          ParseMemory(exported, memory_limits)
    \/ \E bytes \in Strings : ParseMemoryData(0, bytes)
    \/ \E name \in FnNames, exported \in BOOLEAN : ParseFnDef(name, exported)
    \/ FinalizeExports

\* __DATA_SIZE__ in global initializers and in function bodies
DataSizeNext ==
    \/ \E name \in FnNames : ParseFnDef(name, FALSE)
    \/ \E name \in GlobalNames : ParseLet(name, [op |-> "U32ConstLazy"])
    \/ FinalizeExports
    \/ \E body \in Bodies, has_data_size \in BOOLEAN :
          LowerBody(body, <<>>, FALSE, has_data_size)
    \/ LowerGlobals
    \/ WriteDebugInfo

\* the function declarations of a module and the calls in its bodies
MaxCalls == 2

CallSeqs == UNION {[1..n -> FnNames] : n \in 0..MaxCalls}

CallNext ==
    \/ \E name \in FnNames, exported \in BOOLEAN : ParseFnDef(name, exported)
    \/ \E name \in FnNames : ParseImport(name)
    \/ \E name \in FnNames : ParseExportExisting(name, "x")
    \/ FinalizeExports
    \/ \E calls \in CallSeqs : LowerFnBody(<<>>, calls, FALSE)
    \/ LowerGlobals
    \/ WriteDebugInfo

----------------------------------------------------------------------------
\* Properties of the module context and finalize

Finalized == m_pc \in {"debug", "done"} /\ ~inspect_mode

\* the initial value finalize lowered for the global called name
LoweredGlobal(name) == wasm_module.globals[globals[name].index + 1].initial_value

LazyGlobals == {n \in DOMAIN globals : globals[n].value.op = "U32ConstLazy"}

DatasBy(origin) == SelectSeq(wasm_module.datas, LAMBDA d : d.by = origin)

SegmentLengths(datas) == [i \in 1..Len(datas) |-> Len(datas[i].bytes)]

\* C1 as stated: once finalize has lowered the globals, a `let` initialised with
\* __DATA_SIZE__ holds the total byte length of all data segments of the module,
\* the `memory @OFFSET = "BYTES"` segments included.
C1_DataSizeCountsAllSegments ==
    Finalized =>
        \A n \in LazyGlobals :
            LoweredGlobal(n) =
                <<[op |-> "I32Const",
                   value |-> SumSeq(SegmentLengths(wasm_module.datas))]>>

\* C1 amended: once finalize has lowered the globals (compile mode), a `let`
\* initialised with __DATA_SIZE__ holds the total byte length of the data segments
\* appended for string literals and dbg messages, one per distinct content, whether
\* pooled by a constant expression or by a function body; `memory @OFFSET` segments
\* are not counted.
C1_DataSizeCountsPooledSegments ==
    Finalized =>
        \A n \in LazyGlobals :
            /\ LoweredGlobal(n) =
                  <<[op |-> "I32Const",
                     value |-> SumSeq(SegmentLengths(DatasBy("string_pool")))]>>
            /\ LoweredGlobal(n)[1].value = SumLen(DOMAIN string_pool)

C1_Witness ==
    /\ m_pc = "done" /\ ~inspect_mode
    /\ LazyGlobals # {}
    /\ DatasBy("memory") # <<>>
    /\ Len(DatasBy("string_pool")) >= 2
    /\ wasm_module.codes # <<>>

\* C2: identical string literals share one data-segment offset: every use of the
\* same content got the same pointer, string_pool holds exactly one entry per
\* distinct content used, and exactly one data segment was appended per content.
C2_IdenticalStringsShareOffset ==
    /\ \A i, j \in DOMAIN str_uses :
          str_uses[i].value = str_uses[j].value
             => str_uses[i].string_ptr = str_uses[j].string_ptr
    /\ DOMAIN string_pool = {str_uses[i].value : i \in DOMAIN str_uses}
    /\ \A i \in DOMAIN str_uses : string_pool[str_uses[i].value] = str_uses[i].string_ptr
    /\ \A s \in DOMAIN string_pool :
          LET segs == SelectSeq(DatasBy("string_pool"), LAMBDA d : d.bytes = s) IN
          /\ Len(segs) = 1
          /\ segs[1].offset = string_pool[s]
    /\ Len(DatasBy("string_pool")) = Cardinality(DOMAIN string_pool)

C2_Witness ==
    /\ \E i, j \in DOMAIN str_uses : i < j /\ str_uses[i].value = str_uses[j].value
    /\ Cardinality(DOMAIN string_pool) >= 2
    /\ constants # EmptyMap
    /\ wasm_module.codes # <<>>

\* whether the function called name has its body in the module's code list
HasLoweredBody(name) ==
    /\ fn_defs[name].local
    /\ \E k \in DOMAIN wasm_module.codes :
          wasm_module.codes[k].fn_index = fn_defs[name].fn_index

\* C3 as stated: when the name section is written, every exported function has a
\* lowered body.
C3_EveryExportHasBody ==
    wasm_module.custom.written =>
        \A i \in DOMAIN fn_exports : HasLoweredBody(fn_exports[i].in_name)

\* C3 amended: when the name section is written, every exported function that is
\* defined in the module (by `fn` or `export fn`) has a lowered body; an imported
\* function exported by `export existing fn` has none.
C3_EveryLocalExportHasBody ==
    wasm_module.custom.written =>
        /\ Len(wasm_module.exports) = Len(fn_exports)
        /\ \A i \in DOMAIN fn_exports :
              LET def == fn_defs[fn_exports[i].in_name] IN
              /\ def.local => HasLoweredBody(fn_exports[i].in_name)
              /\ wasm_module.exports[i].exported_item_index =
                    get_absolute_index(def, imported_fns_count)
              /\ ~def.local => wasm_module.exports[i].exported_item_index < imported_fns_count

C3_Witness ==
    /\ wasm_module.custom.written
    /\ imported_fns_count > 0
    /\ \E i \in DOMAIN fn_exports :
          /\ fn_exports[i].out_name = "x"
          /\ HasLoweredBody(fn_exports[i].in_name)

----------------------------------------------------------------------------
\* The type system (LoType; ir.rs is not part of the sources at hand, so sizing
\* and component decomposition follow the specification's section 4.3)

Prim(tag) == [tag |-> tag]
Pointer(pointee) == [tag |-> "Pointer", pointee |-> pointee]
StructInstance(name) == [tag |-> "StructInstance", name |-> name]
Result(ok_type, err_type) == [tag |-> "Result", ok_type |-> ok_type, err_type |-> err_type]

RECURSIVE Flatten(_)
Flatten(ss) == IF ss = <<>> THEN <<>> ELSE Head(ss) \o Flatten(Tail(ss))

RECURSIVE emit_components(_, _)
\* LoType::emit_components: the WebAssembly components of a type, in layout order
emit_components(defs, type) ==
    CASE type.tag \in {"Void", "Never"} -> <<>>
      [] type.tag \in {"Bool", "I8", "U8", "I16", "U16", "I32", "U32"} -> <<"I32">>
      [] type.tag \in {"I64", "U64"} -> <<"I64">>
      [] type.tag = "F32" -> <<"F32">>
      [] type.tag = "F64" -> <<"F64">>
      [] type.tag = "Pointer" -> <<"I32">>
      [] type.tag = "StructInstance" ->
            Flatten([i \in 1..Len(defs[type.name].fields) |->
                        emit_components(defs, defs[type.name].fields[i].value_type)])
      [] type.tag = "Result" ->
            emit_components(defs, type.ok_type) \o emit_components(defs, type.err_type)

RECURSIVE byte_length(_, _)
\* the byte_length that LoType::emit_sized_component_stats reports (packed layout)
byte_length(defs, type) ==
    CASE type.tag \in {"Void", "Never"} -> 0
      [] type.tag \in {"Bool", "I8", "U8"} -> 1
      [] type.tag \in {"I16", "U16"} -> 2
      [] type.tag \in {"I32", "U32", "F32", "Pointer"} -> 4
      [] type.tag \in {"I64", "U64", "F64"} -> 8
      [] type.tag = "StructInstance" ->
            SumSeq([i \in 1..Len(defs[type.name].fields) |->
                       byte_length(defs, defs[type.name].fields[i].value_type)])
      [] type.tag = "Result" ->
            byte_length(defs, type.ok_type) + byte_length(defs, type.err_type)

\* EmitComponentStats { count, byte_length } of a type
sized_comp_stats(defs, type) ==
    [count |-> Len(emit_components(defs, type)), byte_length |-> byte_length(defs, type)]

----------------------------------------------------------------------------
\* Struct definitions (parse_top_level_expr, parser.rs 405-483)

StructNames == {"P", "Q"}
FieldNames == {"x", "y"}
MaxFields == 2

\* a type as written: NAME or &NAME
TypeExpr(ref, name) == [ref |-> ref, name |-> name]

TypeExprs == {TypeExpr(FALSE, "u8"), TypeExpr(FALSE, "i64"), TypeExpr(TRUE, "Q"),
              TypeExpr(FALSE, "P"), TypeExpr(FALSE, "Q")}

\* no struct is being parsed; no field type was parsed yet
NoStruct == [name |-> "", fields |-> <<>>, slot |-> [field_index |-> 0, byte_offset |-> 0]]

NoType == [parsed |-> FALSE, type |-> TypeExpr(FALSE, ""), ok |-> FALSE, message |-> ""]

UnknownType == "Unknown type"
\* the messages of the struct production (parser.rs 410, 452-455), without the names
\* the second one carries
CannotRedefineStruct(struct_name) == "Cannot redefine type " \o struct_name
DuplicateField == "Found duplicate struct field name"
PartiallyDefined == "Cannot use partially defined struct"

\* get_type_by_name (parser.rs 2735-2776)
get_type_by_name_any_struct(defs, scope, name, is_referenced) ==
    CASE name = "u8" -> [ok |-> TRUE, type |-> Prim("U8"), message |-> ""]
      [] name = "u32" -> [ok |-> TRUE, type |-> Prim("U32"), message |-> ""]
      [] name = "i64" -> [ok |-> TRUE, type |-> Prim("I64"), message |-> ""]
      [] OTHER ->
            IF name \notin DOMAIN scope
            THEN [ok |-> FALSE, type |-> Prim("Void"), message |-> UnknownType]
            ELSE [ok |-> TRUE, type |-> scope[name], message |-> ""]

get_type_by_name(defs, scope, name, is_referenced) ==
    CASE name = "u8" -> [ok |-> TRUE, type |-> Prim("U8"), message |-> ""]
      [] name = "u32" -> [ok |-> TRUE, type |-> Prim("U32"), message |-> ""]
      [] name = "i64" -> [ok |-> TRUE, type |-> Prim("I64"), message |-> ""]
      [] OTHER ->
            IF name \notin DOMAIN scope
            THEN [ok |-> FALSE, type |-> Prim("Void"), message |-> UnknownType]
            ELSE IF /\ scope[name].tag = "StructInstance"
                    /\ ~defs[scope[name].name].fully_defined
                    /\ ~is_referenced
                 THEN [ok |-> FALSE, type |-> Prim("Void"), message |-> PartiallyDefined]
                 ELSE [ok |-> TRUE, type |-> scope[name], message |-> ""]

\* parse_lo_type_ (parser.rs 2704-2733) on NAME and &NAME
parse_lo_type_(defs, scope, texpr) ==
    IF texpr.ref
    THEN LET pointee == get_type_by_name(defs, scope, texpr.name, TRUE) IN
         [ok |-> pointee.ok, type |-> Pointer(pointee.type), message |-> pointee.message]
    ELSE get_type_by_name(defs, scope, texpr.name, FALSE)

\* field_index += stats.count; byte_offset += stats.byte_length (parser.rs 474-475)
NextFieldSlotUnsized(slot, stats) ==
    [field_index |-> slot.field_index + stats.count,
     byte_offset |-> slot.byte_offset + stats.count]

NextFieldSlot(slot, stats) ==
    [field_index |-> slot.field_index + stats.count,
     byte_offset |-> slot.byte_offset + stats.byte_length]

RECURSIVE ParseStructFields(_, _, _, _, _)
\* the field loop (parser.rs 436-476): [ok, fields] for the fields as written
ParseStructFields(defs, scope, written, struct_fields, slot) ==
    IF written = <<>> THEN [ok |-> TRUE, fields |-> struct_fields, message |-> ""]
    ELSE LET f == Head(written)
             field_type == parse_lo_type_(defs, scope, f.type)
         IN  IF ~field_type.ok
             THEN [ok |-> FALSE, fields |-> struct_fields,
                   message |-> field_type.message]
             ELSE IF \E i \in DOMAIN struct_fields : struct_fields[i].name = f.name
             THEN [ok |-> FALSE, fields |-> struct_fields, message |-> DuplicateField]
             ELSE ParseStructFields(defs, scope, Tail(written),
                     Append(struct_fields,
                            [name |-> f.name, value_type |-> field_type.type,
                             field_index |-> slot.field_index,
                             byte_offset |-> slot.byte_offset]),
                     NextFieldSlot(slot, sized_comp_stats(defs, field_type.type)))

FieldDecls == [name : FieldNames, type : TypeExprs]

FieldLists == UNION {[1..n -> FieldDecls] : n \in 0..MaxFields}

\* `struct NAME { FIELD: TYPE, ... }`
ParseStruct(struct_name, written) ==
    /\ s_pc = "top"
    /\ IF struct_name \in DOMAIN type_scope
       THEN /\ s_pc' = "error"
            /\ s_error' = CannotRedefineStruct(struct_name)
            /\ UNCHANGED <<struct_defs, type_scope>>
       ELSE LET declared == MapPut(struct_defs, struct_name,
                                   [fields |-> <<>>, fully_defined |-> FALSE])
                scope == MapPut(type_scope, struct_name, StructInstance(struct_name))
                parsed == ParseStructFields(declared, scope, written, <<>>,
                                            [field_index |-> 0, byte_offset |-> 0])
            IN  /\ type_scope' = scope
                /\ IF parsed.ok
                   THEN /\ struct_defs' = MapPut(struct_defs, struct_name,
                                [fields |-> parsed.fields, fully_defined |-> TRUE])
                        /\ s_pc' = s_pc
                        /\ UNCHANGED s_error
                   ELSE /\ struct_defs' = declared
                        /\ s_pc' = "error"
                        /\ s_error' = parsed.message
    /\ UNCHANGED <<literal, cur_struct, last_type, macros>>
    /\ UNCHANGED notStruct

----------------------------------------------------------------------------
\* Typed IR (LoInstr) as far as struct literals, return and throw need it

U32Const == [op |-> "U32Const"]
U64Const == [op |-> "U64Const"]
I64Const == [op |-> "I64Const"]
NoInstr == [op |-> "NoInstr"]
MultiValueEmit(values) == [op |-> "MultiValueEmit", values |-> values]
Casted(expr, type) == [op |-> "Casted", expr |-> expr, value_type |-> type]

RECURSIVE get_type(_)
\* LoInstr::get_type
get_type(instr) ==
    CASE instr.op = "U32Const" -> Prim("U32")
      [] instr.op = "U64Const" -> Prim("U64")
      [] instr.op = "I64Const" -> Prim("I64")
      [] instr.op = "NoInstr" -> Prim("Void")
      [] instr.op = "Call" -> instr.return_type
      [] instr.op = "Casted" -> instr.value_type
      [] instr.op = "Return" -> Prim("Never")
      [] instr.op \in {"I64FromI32Signed", "I64FromI32Unsigned"} -> Prim("I64")
      [] instr.op = "I32FromI64" -> Prim("I32")
      [] instr.op = "If" -> instr.block_type
      [] instr.op = "MultiValueEmit" ->
            [tag |-> "Tuple", types |-> [i \in 1..Len(instr.values) |-> get_type(instr.values[i])]]

RECURSIVE lowered_components(_, _)
\* the WebAssembly values that lowering an instruction leaves on the stack;
\* Casted emits what the wrapped instruction emits
lowered_components(defs, instr) ==
    CASE instr.op = "U32Const" -> <<"I32">>
      [] instr.op \in {"U64Const", "I64Const"} -> <<"I64">>
      [] instr.op = "NoInstr" -> <<>>
      [] instr.op = "Call" -> emit_components(defs, instr.return_type)
      [] instr.op = "Casted" -> lowered_components(defs, instr.expr)
      [] instr.op = "MultiValueEmit" ->
            Flatten([i \in 1..Len(instr.values) |->
                        lowered_components(defs, instr.values[i])])

\* the values a struct literal may give a field
FieldValues == {I64Const, Casted(U32Const, Prim("U8"))}

FieldInits == [name : FieldNames, value : FieldValues]

LiteralBodies == UNION {[1..n -> FieldInits] : n \in 0..MaxFields}

RECURSIVE ParseLiteralFields(_, _, _)
\* the loop of the struct-literal production (parser.rs 1598-1637)
ParseLiteralFields(struct_def, written, values) ==
    IF written = <<>> THEN [ok |-> TRUE, values |-> values]
    ELSE LET f == Head(written)
             field_index == Len(values)
         IN  IF field_index + 1 \notin DOMAIN struct_def.fields
             THEN [ok |-> FALSE, values |-> values]
             ELSE IF f.name # struct_def.fields[field_index + 1].name
             THEN [ok |-> FALSE, values |-> values]
             ELSE IF get_type(f.value) # struct_def.fields[field_index + 1].value_type
             THEN [ok |-> FALSE, values |-> values]
             ELSE ParseLiteralFields(struct_def, Tail(written), Append(values, f.value))

\* parse_primary on `Name { field: value, ... }` (parser.rs 1593-1644)
parse_struct_literal(defs, struct_name, written) ==
    LET parsed == ParseLiteralFields(defs[struct_name], written, <<>>) IN
    IF parsed.ok
    THEN [ok |-> TRUE,
          struct_name |-> struct_name,
          instr |-> Casted(MultiValueEmit(parsed.values), StructInstance(struct_name))]
    ELSE [ok |-> FALSE, struct_name |-> struct_name, instr |-> NoInstr]

ParseStructLiteral(struct_name, written) ==
    /\ s_pc = "top"
    /\ struct_name \in DOMAIN struct_defs
    /\ literal' = parse_struct_literal(struct_defs, struct_name, written)
    /\ UNCHANGED <<s_pc, struct_defs, type_scope, cur_struct, last_type, macros, s_error>>
    /\ UNCHANGED notStruct

NoLiteral == [ok |-> FALSE, struct_name |-> "", instr |-> NoInstr]

StructInit ==
    /\ s_pc = "top"
    /\ struct_defs = EmptyMap
    /\ type_scope = EmptyMap
    /\ literal = NoLiteral
    /\ cur_struct = NoStruct
    /\ last_type = NoType
    /\ macros = EmptyMap
    /\ s_error = ""

StructNext ==
    \/ \E struct_name \in StructNames, written \in FieldLists :
          ParseStruct(struct_name, written)
    \/ \E struct_name \in StructNames, written \in LiteralBodies :
          ParseStructLiteral(struct_name, written)

----------------------------------------------------------------------------
\* `struct NAME { FIELD: TYPE, ... }` token by token (parser.rs 405-483)

\* `struct NAME {` (parser.rs 405-435)
BeginStruct(struct_name) ==
    /\ s_pc = "top"
    /\ IF struct_name \in DOMAIN type_scope
       THEN /\ s_pc' = "error"
            /\ s_error' = CannotRedefineStruct(struct_name)
            /\ UNCHANGED <<struct_defs, type_scope, cur_struct>>
       ELSE /\ struct_defs' = MapPut(struct_defs, struct_name,
                                     [fields |-> <<>>, fully_defined |-> FALSE])
            /\ type_scope' = MapPut(type_scope, struct_name, StructInstance(struct_name))
            /\ cur_struct' = [name |-> struct_name, fields |-> <<>>,
                              slot |-> [field_index |-> 0, byte_offset |-> 0]]
            /\ s_pc' = "fields"
            /\ UNCHANGED s_error
    /\ last_type' = NoType
    /\ UNCHANGED <<literal, macros>>
    /\ UNCHANGED notStruct

\* `FIELD: TYPE,` : one turn of the field loop (parser.rs 436-476)
ParseField(f) ==
    /\ s_pc = "fields" /\ Len(cur_struct.fields) < MaxFields
    /\ LET field_type == parse_lo_type_(struct_defs, type_scope, f.type) IN
       /\ last_type' = [parsed |-> TRUE, type |-> f.type, ok |-> field_type.ok,
                        message |-> field_type.message]
       /\ IF ~field_type.ok
             \/ \E i \in DOMAIN cur_struct.fields : cur_struct.fields[i].name = f.name
          THEN /\ s_pc' = "error"
               /\ s_error' = IF ~field_type.ok THEN field_type.message
                              ELSE DuplicateField
               /\ UNCHANGED cur_struct
          ELSE /\ s_pc' = s_pc
               /\ UNCHANGED s_error
               /\ cur_struct' =
                     [name |-> cur_struct.name,
                      fields |-> Append(cur_struct.fields,
                                    [name |-> f.name, value_type |-> field_type.type,
                                     field_index |-> cur_struct.slot.field_index,
                                     byte_offset |-> cur_struct.slot.byte_offset]),
                      slot |-> NextFieldSlot(cur_struct.slot,
                                             sized_comp_stats(struct_defs, field_type.type))]
    /\ UNCHANGED <<struct_defs, type_scope, literal, macros>>
    /\ UNCHANGED notStruct

\* `}` : the fields are stored and the struct is fully defined (parser.rs 436, 478-482)
EndStruct ==
    /\ s_pc = "fields"
    /\ struct_defs' = MapPut(struct_defs, cur_struct.name,
                             [fields |-> cur_struct.fields, fully_defined |-> TRUE])
    /\ s_pc' = "top"
    /\ cur_struct' = NoStruct
    /\ last_type' = NoType
    /\ UNCHANGED <<type_scope, literal, macros, s_error>>
    /\ UNCHANGED notStruct

FieldsNext ==
    \/ \E struct_name \in StructNames : BeginStruct(struct_name)
    \/ \E f \in FieldDecls : ParseField(f)
    \/ EndStruct

----------------------------------------------------------------------------
\* `type NAME = TYPE` and `macro NAME!<T, ...>(...)` (parser.rs 485-501, 702-770)

CannotRedefineType(type_alias) == "Cannot redefine type: " \o type_alias
CannotRedefineMacro(macro_name) == "Cannot redefine macro: " \o macro_name
ShadowsType(p_name) == "Type parameter shadows existing type: " \o p_name
DuplicateTypeParam(p_name) == "Found duplicate type parameter: " \o p_name

\* `type NAME = TYPE`: the type is parsed before the name is looked up
ParseTypeAlias(type_alias, written) ==
    /\ s_pc = "top"
    /\ LET actual_type == parse_lo_type_(struct_defs, type_scope, written) IN
       IF ~actual_type.ok
       THEN /\ s_pc' = "error"
            /\ s_error' = actual_type.message
            /\ UNCHANGED type_scope
       ELSE IF type_alias \in DOMAIN type_scope
       THEN /\ s_pc' = "error"
            /\ s_error' = CannotRedefineType(type_alias)
            /\ UNCHANGED type_scope
       ELSE /\ type_scope' = MapPut(type_scope, type_alias, actual_type.type)
            /\ UNCHANGED <<s_pc, s_error>>
    /\ UNCHANGED <<struct_defs, literal, cur_struct, last_type, macros>>
    /\ UNCHANGED notStruct

\* ctx.macros.contains_key(&macro_name.value) (parser.rs 706)
macros_contains_key_never(defs, macro_name) == FALSE

macros_contains_key(defs, macro_name) == macro_name \in DOMAIN defs

RECURSIVE parse_type_params(_, _, _, _)
\* the type parameter loop (parser.rs 717-739): the message of the first
\* parameter rejected, or ""
parse_type_params(defs, scope, written, type_params) ==
    IF written = <<>> THEN ""
    ELSE LET p_name == Head(written) IN
         IF get_type_by_name(defs, scope, p_name, FALSE).ok THEN ShadowsType(p_name)
         ELSE IF \E i \in DOMAIN type_params : type_params[i] = p_name
         THEN DuplicateTypeParam(p_name)
         ELSE parse_type_params(defs, scope, Tail(written), Append(type_params, p_name))

\* `macro NAME!<T, ...>(PARAMS): TYPE { BODY }` with parameters and a return
\* type that parse
ParseMacroDef(macro_name, written) ==
    /\ s_pc = "top"
    /\ IF macros_contains_key(macros, macro_name)
       THEN /\ s_pc' = "error"
            /\ s_error' = CannotRedefineMacro(macro_name)
            /\ UNCHANGED macros
       ELSE LET message == parse_type_params(struct_defs, type_scope, written, <<>>) IN
            IF message # ""
            THEN /\ s_pc' = "error"
                 /\ s_error' = message
                 /\ UNCHANGED macros
            ELSE /\ macros' = MapPut(macros, macro_name, [type_params |-> written])
                 /\ UNCHANGED <<s_pc, s_error>>
    /\ UNCHANGED <<struct_defs, type_scope, literal, cur_struct, last_type>>
    /\ UNCHANGED notStruct

\* the declarations that bind a name: let, const, struct, type, macro; the first
\* error ends the parse
AliasNames == {"P", "T"}
AliasTypes == {TypeExpr(FALSE, "u8"), TypeExpr(FALSE, "P"), TypeExpr(FALSE, "Q")}
MacroNames == {"m"}
TypeParamLists == {<<>>, <<"T">>, <<"P">>, <<"U", "U">>}
DeclFields == {[name |-> "x", type |-> TypeExpr(FALSE, "u8")],
               [name |-> "y", type |-> TypeExpr(FALSE, "u8")]}

\* no declaration was rejected yet
Declaring == m_pc = "parse" /\ s_pc # "error"

DeclNext ==
    \/ /\ Declaring /\ s_pc = "top"
       /\ \E name \in GlobalNames : ParseLet(name, [op |-> "U32ConstLazy"])
    \/ /\ Declaring /\ s_pc = "top"
       /\ \E name \in ConstNames : ParseConst(name, "a")
    \/ Declaring /\ BeginStruct("P")
    \/ Declaring /\ \E f \in DeclFields : ParseField(f)
    \/ Declaring /\ EndStruct
    \/ /\ Declaring
       /\ \E type_alias \in AliasNames, written \in AliasTypes :
             ParseTypeAlias(type_alias, written)
    \/ /\ Declaring
       /\ \E macro_name \in MacroNames, written \in TypeParamLists :
             ParseMacroDef(macro_name, written)

----------------------------------------------------------------------------
\* Function bodies: return, throw, defer (parse_primary) and the fall-through
\* handling of finalize

MaxStmts == 3

Call(fn_index, return_type) ==
    [op |-> "Call", fn_index |-> fn_index, return_type |-> return_type]

\* LoType::get_default_value: one zero constant per component of the type
get_default_value(defs, type) ==
    Casted(MultiValueEmit([i \in 1..Len(emit_components(defs, type)) |->
                              IF emit_components(defs, type)[i] = "I64"
                              THEN I64Const ELSE U32Const]),
           type)

\* get_deferred (parser.rs 2860-2869); the empty sequence stands for None
get_deferred_in_registration_order(fn_defers) == fn_defers

get_deferred(fn_defers) == Reverse(fn_defers)

\* `if let Some(mut values) = get_deferred(ctx) { values.insert(0, return_value); .. }`
WithDeferred(return_value, deferred) ==
    IF deferred = <<>> THEN return_value
    ELSE Casted(MultiValueEmit(<<return_value>> \o deferred), Prim("Void"))

ParseFailed(message) ==
    [ok |-> FALSE, instr |-> NoInstr, defers |-> <<>>, log |-> <<>>, message |-> message]

\* parse_primary on `return EXPR?` (parser.rs 997-1038); pair and loc record the
\* value before the defers were added and the position of the return token
parse_return(defs, output, fn_defers, value, loc) ==
    LET expected_return_type == IF output.tag = "Result" THEN output.ok_type ELSE output
        pair == IF output.tag = "Result"
                THEN MultiValueEmit(<<value, get_default_value(defs, output.err_type)>>)
                ELSE value
    IN  IF get_type(value) # expected_return_type
        THEN ParseFailed("TypeError: Invalid return type")
        ELSE [ok |-> TRUE,
              instr |-> [op |-> "Return", by |-> "return", loc |-> loc, pair |-> pair,
                         value |-> WithDeferred(pair, get_deferred(fn_defers))],
              defers |-> fn_defers, log |-> <<>>]

\* parse_primary on `throw EXPR` (parser.rs 1040-1078)
parse_throw_any_type(defs, output, fn_defers, error, loc) ==
    IF output.tag # "Result" THEN ParseFailed("TypeError: Cannot throw")
    ELSE LET pair == MultiValueEmit(<<get_default_value(defs, output.ok_type), error>>) IN
         [ok |-> TRUE,
          instr |-> [op |-> "Return", by |-> "throw", loc |-> loc, pair |-> pair,
                     value |-> WithDeferred(pair, get_deferred(fn_defers))],
          defers |-> fn_defers, log |-> <<>>]

parse_throw(defs, output, fn_defers, error, loc) ==
    IF output.tag # "Result" THEN ParseFailed("TypeError: Cannot throw")
    ELSE IF get_type(error) # output.err_type
    THEN ParseFailed("TypeError: Invalid throw type")
    ELSE LET pair == MultiValueEmit(<<get_default_value(defs, output.ok_type), error>>) IN
         [ok |-> TRUE,
          instr |-> [op |-> "Return", by |-> "throw", loc |-> loc, pair |-> pair,
                     value |-> WithDeferred(pair, get_deferred(fn_defers))],
          defers |-> fn_defers, log |-> <<>>]

\* parse_primary on `defer EXPR` (parser.rs 1094-1100)
parse_defer(fn_defers, deffered_expr, loc) ==
    [ok |-> TRUE, instr |-> NoInstr, defers |-> Append(fn_defers, deffered_expr),
     log |-> <<[loc |-> loc, expr |-> deffered_expr]>>]

\* a statement that is a return, a throw or a defer
parse_simple(defs, output, fn_defers, stmt, loc) ==
    CASE stmt.k = "return" -> parse_return(defs, output, fn_defers, stmt.expr, loc)
      [] stmt.k = "throw" -> parse_throw(defs, output, fn_defers, stmt.expr, loc)
      [] stmt.k = "defer" -> parse_defer(fn_defers, stmt.expr, loc)

\* parse_primary on `if COND { STMT; }` (parser.rs 1147-1184): the branch is a block
\* of its own, so a return in it is not a return of the enclosing block
parse_if(defs, output, fn_defers, stmt, loc) ==
    LET inner == parse_simple(defs, output, fn_defers, stmt.then_stmt, loc) IN
    IF ~inner.ok THEN inner
    ELSE [ok |-> TRUE,
          instr |-> [op |-> "If", block_type |-> Prim("Void"),
                     then_branch |-> <<inner.instr>>],
          defers |-> inner.defers, log |-> inner.log]

parse_stmt(defs, output, fn_defers, stmt, loc) ==
    IF stmt.k = "if" THEN parse_if(defs, output, fn_defers, stmt, loc)
    ELSE parse_simple(defs, output, fn_defers, stmt, loc)

\* the deferred expressions: calls of two void functions
DeferExprs == {Call(0, Prim("Void")), Call(1, Prim("Void"))}

\* the values returned and thrown: nothing, an integer, and the struct literals
\* of P that the parser accepts
ValueExprs(defs) ==
    {NoInstr, U32Const} \cup
    {parse_struct_literal(defs, "P", w).instr :
        w \in {b \in LiteralBodies : parse_struct_literal(defs, "P", b).ok}}

SimpleStmts(defs) ==
    {[k |-> "defer", expr |-> e] : e \in DeferExprs}
    \cup {[k |-> "return", expr |-> v] : v \in ValueExprs(defs)}
    \cup {[k |-> "throw", expr |-> v] : v \in ValueExprs(defs)}

Stmts(defs) ==
    SimpleStmts(defs) \cup {[k |-> "if", then_stmt |-> s] : s \in SimpleStmts(defs)}

\* one turn of the loop of parse_block_contents (parser.rs 1846-1876) on the
\* function's block, whose expected type is void
ParseStmt(stmt) ==
    /\ f_pc = "body" /\ stmts < MaxStmts
    /\ LET parsed == parse_stmt(struct_defs, fn_output, defers, stmt, next_loc)
           expr_type == get_type(parsed.instr)
       IN  IF ~parsed.ok
           THEN /\ f_pc' = "error"
                /\ f_error' = parsed.message
                /\ last_stmt' = [stmt |-> stmt, ok |-> FALSE]
                /\ UNCHANGED <<defers, contents, defer_log>>
           ELSE /\ f_pc' = f_pc
                /\ f_error' = f_error
                /\ last_stmt' = [stmt |-> stmt, ok |-> TRUE]
                /\ defers' = parsed.defers
                /\ defer_log' = defer_log \o parsed.log
                /\ contents' =
                      [exprs |-> Append(contents.exprs, parsed.instr),
                       has_never |-> contents.has_never \/ expr_type = Prim("Never"),
                       has_return |-> contents.has_return
                                      \/ (expr_type = Prim("Never")
                                          /\ parsed.instr.op = "Return")]
    /\ stmts' = stmts + 1
    /\ next_loc' = next_loc + 1
    /\ UNCHANGED <<fn_output, f_codes>>
    /\ UNCHANGED notFn

\* the two messages of finalize (the first has never between backquotes)
TerminatesButNever == "This function terminates but is marked as never"
MissingReturn == "Missing return expression"

\* ctx.wasm_module.codes.push(WasmFn { .. }) with the body's expressions
\* (parser.rs 175-182)
PushCode(exprs) ==
    /\ f_pc' = "done"
    /\ contents' = [contents EXCEPT !.exprs = exprs]
    /\ f_codes' = Append(f_codes, [exprs |-> exprs])
    /\ UNCHANGED f_error

\* return Err(..) from finalize (parser.rs 146-159)
EndBodyErrorAfterPush(exprs, message) ==
    /\ f_pc' = "error"
    /\ contents' = [contents EXCEPT !.exprs = exprs]
    /\ f_error' = message
    /\ f_codes' = Append(f_codes, [exprs |-> exprs])

EndBodyError(exprs, message) ==
    /\ f_pc' = "error"
    /\ contents' = [contents EXCEPT !.exprs = exprs]
    /\ f_error' = message
    /\ UNCHANGED f_codes

\* the end of the body: finalize, parser.rs 133-182
EndBody ==
    /\ f_pc = "body"
    /\ IF contents.has_return \/ contents.has_never
       THEN PushCode(contents.exprs)
       ELSE LET with_deferred == contents.exprs \o get_deferred(defers) IN
            CASE fn_output.tag = "Void" -> PushCode(with_deferred)
              [] fn_output.tag = "Result" /\ fn_output.ok_type.tag = "Void" ->
                    PushCode(Append(with_deferred,
                                    get_default_value(struct_defs, fn_output.err_type)))
              [] fn_output.tag = "Never" -> EndBodyError(with_deferred, TerminatesButNever)
              [] OTHER -> EndBodyError(with_deferred, MissingReturn)
    /\ UNCHANGED <<fn_output, defers, stmts, next_loc, defer_log, last_stmt>>
    /\ UNCHANGED notFn

\* the declared outputs of the function
FnOutputs == {Prim("Void"), Prim("U32"), Prim("Never"),
              Result(Prim("Void"), Prim("U32")),
              Result(Prim("U32"), Prim("U32")),
              Result(StructInstance("P"), Prim("U32"))}

NoStmt == [stmt |-> [k |-> "none"], ok |-> FALSE]

FnIdle ==
    /\ f_pc = "body"
    /\ fn_output = Prim("Void")
    /\ defers = <<>>
    /\ contents = [exprs |-> <<>>, has_never |-> FALSE, has_return |-> FALSE]
    /\ stmts = 0
    /\ next_loc = 1
    /\ defer_log = <<>>
    /\ f_error = ""
    /\ f_codes = <<>>
    /\ last_stmt = NoStmt

FnInit ==
    /\ f_pc = "body"
    /\ fn_output \in FnOutputs
    /\ defers = <<>>
    /\ contents = [exprs |-> <<>>, has_never |-> FALSE, has_return |-> FALSE]
    /\ stmts = 0
    /\ next_loc = 1
    /\ defer_log = <<>>
    /\ f_error = ""
    /\ f_codes = <<>>
    /\ last_stmt = NoStmt

\* the module context after `struct P { x: i64, y: u8 };`
StructPDeclared ==
    /\ s_pc = "top"
    /\ type_scope = MapPut(EmptyMap, "P", StructInstance("P"))
    /\ struct_defs = MapPut(EmptyMap, "P",
          [fields |-> ParseStructFields(
                         MapPut(EmptyMap, "P", [fields |-> <<>>, fully_defined |-> FALSE]),
                         MapPut(EmptyMap, "P", StructInstance("P")),
                         <<[name |-> "x", type |-> TypeExpr(FALSE, "i64")],
                           [name |-> "y", type |-> TypeExpr(FALSE, "u8")]>>,
                         <<>>, [field_index |-> 0, byte_offset |-> 0]).fields,
           fully_defined |-> TRUE])
    /\ literal = NoLiteral
    /\ cur_struct = NoStruct
    /\ last_type = NoType
    /\ macros = EmptyMap
    /\ s_error = ""

FnNext ==
    \/ \E stmt \in Stmts(struct_defs) : ParseStmt(stmt)
    \/ EndBody

----------------------------------------------------------------------------
\* `for COUNTER in START..END { BODY }` (parser.rs 1211-1325) and the run of
\*    init; block { loop { if counter == END { br 2 }; block { BODY }; update; br 0 } }

\* widths of the WebAssembly integers, scaled down from 32 and 64 bits
I32Bits == 3
I64Bits == 4

\* the largest start and end count written in the source
MaxCount == 3

RECURSIVE Pow2(_)
Pow2(n) == IF n = 0 THEN 1 ELSE 2 * Pow2(n - 1)

CountTypes == {Prim("U32"), Prim("I64"), Prim("F32")}

\* match counter_type { .. } (parser.rs 1242-1259)
for_ops(type) ==
    CASE type.tag \in {"Bool", "I8", "U8", "I32", "U32"} ->
            [ok |-> TRUE, check_op_kind |-> "I32_EQ", add_op_kind |-> "I32_ADD",
             step_instr |-> U32Const]
      [] type.tag \in {"I64", "U64"} ->
            [ok |-> TRUE, check_op_kind |-> "I64_EQ", add_op_kind |-> "I64_ADD",
             step_instr |-> U64Const]
      [] OTHER ->
            [ok |-> FALSE, check_op_kind |-> "", add_op_kind |-> "", step_instr |-> NoInstr]

\* WebAssembly i32.eq / i64.eq
check_op(kind, lhs, rhs) == lhs = rhs

\* WebAssembly i32.add / i64.add: addition modulo 2^width
add_op(kind, lhs, rhs) ==
    (lhs + rhs) % Pow2(IF kind = "I32_ADD" THEN I32Bits ELSE I64Bits)

\* the checks of parse_primary on the counts (parser.rs 1228-1259)
ParseFor ==
    /\ for_pc = "parse"
    /\ for_pc' = IF end_type # counter_type \/ ~for_ops(counter_type).ok
                 THEN "error" ELSE "init"
    /\ UNCHANGED <<counter_type, end_type, start_count, end_count, counter, body_runs>>
    /\ UNCHANGED notFor

\* init_instr: define_local(counter_ctx, counter, start_count, ..) (parser.rs 1261)
RunInit ==
    /\ for_pc = "init"
    /\ counter' = start_count
    /\ for_pc' = "check"
    /\ UNCHANGED <<counter_type, end_type, start_count, end_count, body_runs>>
    /\ UNCHANGED notFor

\* end_check_instr: if counter == end_count { br 2 } (parser.rs 1271-1283)
RunEndCheck ==
    /\ for_pc = "check"
    /\ for_pc' = IF check_op(for_ops(counter_type).check_op_kind, counter, end_count)
                 THEN "done" ELSE "body"
    /\ UNCHANGED <<counter_type, end_type, start_count, end_count, counter, body_runs>>
    /\ UNCHANGED notFor

\* block { BODY } (parser.rs 1313-1316)
RunBody ==
    /\ for_pc = "body"
    /\ body_runs' = body_runs + 1
    /\ for_pc' = "update"
    /\ UNCHANGED <<counter_type, end_type, start_count, end_count, counter>>
    /\ UNCHANGED notFor

\* update_instr, then implicit_continue: br 0 (parser.rs 1284-1293, 1317-1318)
RunUpdate ==
    /\ for_pc = "update"
    /\ counter' = add_op(for_ops(counter_type).add_op_kind, counter, 1)
    /\ for_pc' = "check"
    /\ UNCHANGED <<counter_type, end_type, start_count, end_count, body_runs>>
    /\ UNCHANGED notFor

ForIdle ==
    /\ for_pc = "parse"
    /\ counter_type = Prim("U32") /\ end_type = Prim("U32")
    /\ start_count = 0 /\ end_count = 0 /\ counter = 0 /\ body_runs = 0

ForInit ==
    /\ for_pc = "parse"
    /\ counter_type \in CountTypes /\ end_type \in CountTypes
    /\ start_count \in 0..MaxCount /\ end_count \in 0..MaxCount
    /\ counter = 0 /\ body_runs = 0

ForNext ==
    \/ ParseFor
    \/ RunInit
    \/ RunEndCheck
    \/ RunBody
    \/ RunUpdate

----------------------------------------------------------------------------
\* break and continue (parser.rs 1351-1390) in the blocks opened by if, else,
\* loop, for, catch and macro calls

MaxDepth == 3

\* what a construct adds to the chain of blocks while its body is parsed, and the
\* labels of the instructions its body ends up in, outermost first
Constructs ==
    {   \* if COND { .. } -> If (parser.rs 1147-1184)
        [name |-> "if", blocks |-> <<"Block">>, labels |-> <<"if">>],
        [name |-> "else", blocks |-> <<"Block">>, labels |-> <<"if">>],
        \* loop { .. } -> Block { Loop { .. } } (parser.rs 1186-1209)
        [name |-> "loop", blocks |-> <<"Loop">>, labels |-> <<"loop_wrapper", "loop_header">>],
        \* for -> Block { Loop { .., Block { BODY }, .. } } (parser.rs 1214-1222, 1295-1323)
        [name |-> "for", blocks |-> <<"Block", "ForLoop">>,
         labels |-> <<"for_wrapper", "for_header", "for_body">>],
        \* EXPR catch e { .. } -> If (parser.rs 2326-2334, 2385-2391)
        [name |-> "catch", blocks |-> <<"Block">>, labels |-> <<"if">>],
        \* NAME!(..) -> MultiValueEmit, which has no label (parser.rs 1787-1799, 1825)
        [name |-> "macro", blocks |-> <<"Block">>, labels |-> <<>>]
    }

RECURSIVE break_label_walk(_, _, _)
\* the loop of `break` (parser.rs 1355-1367); -1 when parent.unwrap() panics
break_label_walk(blocks, k, label_index) ==
    IF blocks[k] = "Loop" THEN label_index
    ELSE IF blocks[k] = "ForLoop" THEN label_index + 1
    ELSE IF k = 1 THEN -1
    ELSE break_label_walk(blocks, k - 1, label_index + 1)

RECURSIVE continue_label_walk(_, _, _)
\* the loop of `continue` (parser.rs 1376-1387)
continue_label_walk(blocks, k, label_index) ==
    IF blocks[k] = "Loop" THEN label_index
    ELSE IF blocks[k] = "ForLoop" THEN label_index
    ELSE IF k = 1 THEN -1
    ELSE continue_label_walk(blocks, k - 1, label_index + 1)

\* the body of a construct starts being parsed
EnterBlock(c) ==
    /\ b_pc = "parsing" /\ Len(frames) < MaxDepth
    /\ chain' = chain \o c.blocks
    /\ labels' = labels \o c.labels
    /\ frames' = Append(frames, [name |-> c.name, blocks |-> Len(c.blocks),
                                 labels |-> Len(c.labels)])
    /\ UNCHANGED <<b_pc, branch>>
    /\ UNCHANGED notBranch

\* the body of the innermost construct ends
ExitBlock ==
    /\ b_pc = "parsing" /\ frames # <<>>
    /\ LET f == frames[Len(frames)] IN
       /\ chain' = SubSeq(chain, 1, Len(chain) - f.blocks)
       /\ labels' = SubSeq(labels, 1, Len(labels) - f.labels)
    /\ frames' = SubSeq(frames, 1, Len(frames) - 1)
    /\ UNCHANGED <<b_pc, branch>>
    /\ UNCHANGED notBranch

EmitBranch(kind, label_index) ==
    IF label_index < 0
    THEN b_pc' = "panic" /\ UNCHANGED branch
    ELSE /\ b_pc' = b_pc
         /\ branch' = [kind |-> kind, label_index |-> label_index, labels |-> labels]

\* parse_primary on `break` (parser.rs 1351-1370)
ParseBreak ==
    /\ b_pc = "parsing"
    /\ EmitBranch("break", break_label_walk(chain, Len(chain), 1))
    /\ UNCHANGED <<chain, labels, frames>>
    /\ UNCHANGED notBranch

\* parse_primary on `continue` (parser.rs 1372-1390)
ParseContinue ==
    /\ b_pc = "parsing"
    /\ EmitBranch("continue", continue_label_walk(chain, Len(chain), 0))
    /\ UNCHANGED <<chain, labels, frames>>
    /\ UNCHANGED notBranch

NoBranch == [kind |-> "none", label_index |-> 0, labels |-> <<>>]

\* the start of a function body: locals_block and the function's block
\* (parser.rs 117-128)
BranchInit ==
    /\ b_pc = "parsing"
    /\ chain = <<"Block", "Function">>
    /\ labels = <<"function">>
    /\ frames = <<>>
    /\ branch = NoBranch

BranchNext ==
    \/ \E c \in Constructs : EnterBlock(c)
    \/ ExitBlock
    \/ ParseBreak
    \/ ParseContinue

----------------------------------------------------------------------------
\* EXPR catch BIND { BODY } (parser.rs 2308-2395), in a function whose block has
\* locals defined by let

MaxCatches == 2

LocalNames == {"e", "x"}

IgnoredError == "<ignored error>"

\* Block::get_local: the block's own locals, then those of its parents
get_local(blocks, name) ==
    LET own == {k \in DOMAIN blocks : name \in DOMAIN blocks[k]} IN
    IF own = {} THEN [found |-> FALSE, index |-> 0]
    ELSE LET k == CHOOSE i \in own : \A j \in own : j <= i IN
         [found |-> TRUE, index |-> blocks[k][name]]

\* define_local (parser.rs 1652-1705) in a block with the given locals
define_local(locals, last_index, name, value_type) ==
    IF name \in DOMAIN locals THEN [ok |-> FALSE, locals |-> locals, last_index |-> last_index]
    ELSE [ok |-> TRUE, locals |-> MapPut(locals, name, last_index),
          last_index |-> last_index + Len(emit_components(EmptyMap, value_type))]

\* parse_primary on `let NAME = 0` (parser.rs 1392-1415)
ParseLocalLet(name) ==
    /\ c_pc = "parsing" /\ catches = <<>>
    /\ IF name = "_" THEN UNCHANGED <<c_pc, fn_locals, locals_last_index>>
       ELSE LET defined == define_local(fn_locals, locals_last_index, name, Prim("U32")) IN
            /\ c_pc' = IF defined.ok THEN c_pc ELSE "error"
            /\ fn_locals' = defined.locals
            /\ locals_last_index' = defined.last_index
    /\ UNCHANGED catches
    /\ UNCHANGED notCatch

\* parse_postfix on `EXPR catch BIND { SYMBOL; }` where EXPR is a Result of
\* ok_type and u32 (parser.rs 2308-2395)
ParseCatch(bind, symbol, ok_type) ==
    /\ c_pc = "parsing" /\ Len(catches) < MaxCatches
    /\ LET error_bind == IF bind = "_" THEN IgnoredError ELSE bind
           err_type == Prim("U32")
           \* catch_ctx.block has no locals yet when its body is parsed
           in_body == get_local(<<fn_locals, EmptyMap>>, symbol)
           bound == define_local(EmptyMap, locals_last_index, error_bind, err_type)
           ok_bound == IF ok_type # Prim("Void")
                       THEN define_local(bound.locals, bound.last_index, "<ok>", ok_type)
                       ELSE bound
       IN  IF ~in_body.found
           THEN /\ c_pc' = "error"
                /\ catches' = Append(catches,
                      [compiled |-> FALSE, bind |-> bind, symbol |-> symbol,
                       symbol_index |-> -1, bind_index |-> -1])
                /\ UNCHANGED locals_last_index
           ELSE /\ c_pc' = c_pc
                /\ catches' = Append(catches,
                      [compiled |-> TRUE, bind |-> bind, symbol |-> symbol,
                       symbol_index |-> in_body.index,
                       bind_index |-> bound.locals[error_bind]])
                /\ locals_last_index' = ok_bound.last_index
    /\ UNCHANGED fn_locals
    /\ UNCHANGED notCatch

CatchInit ==
    /\ c_pc = "parsing"
    /\ fn_locals = EmptyMap
    /\ locals_last_index = 0
    /\ catches = <<>>

CatchNext ==
    \/ \E name \in LocalNames \cup {"_"} : ParseLocalLet(name)
    \/ \E bind \in LocalNames \cup {"_"}, symbol \in LocalNames,
          ok_type \in {Prim("Void"), Prim("U32")} : ParseCatch(bind, symbol, ok_type)

----------------------------------------------------------------------------
\* include "PATH" (parse_file, parse_file_contents, parse_file_tokens and the
\* include production of parse_top_level_expr)

\* the longest file, in top-level items
MaxItems == 2

\* deeper than any nesting of includes of distinct files
MaxStack == 4

\* a path as written: a file name in the including file's directory, in its
\* subdirectory d, or in its parent directory
WrittenPaths == {[mode |-> "here", name |-> "a"], [mode |-> "here", name |-> "b"],
                 [mode |-> "down", name |-> "a"], [mode |-> "up", name |-> "a"]}

\* a top-level item: a declaration or an include
Items == {[k |-> "decl"]} \cup {[k |-> "include", file_path |-> w] : w \in WrittenPaths}

Contents == UNION {[1..n -> Items] : n \in 0..MaxItems}

\* the directory of a file; the driver's internal location has none
DirOf(file_name) == IF file_name \in {"d/a", "d/b"} THEN "d" ELSE ""

\* resolve_path: the written path taken from the directory of the including file
resolve_path(file_path, file_name) ==
    LET from == DirOf(file_name)
        dir == CASE file_path.mode = "here" -> from
                 [] file_path.mode = "down" -> IF from = "" THEN "d" ELSE "d/d"
                 [] file_path.mode = "up" -> IF from = "d" THEN "" ELSE ".."
    IN  IF dir = "" THEN file_path.name ELSE dir \o "/" \o file_path.name

\* fd_open succeeds on the files that exist: a and d/a
fd_open(file_path) == file_path \in {"a", "d/a"}

\* ctx.included_modules.insert(file_path, file_index) (parser.rs 52-60)
included_modules_unrecorded(modules, file_path) == modules

included_modules_insert_first_index(modules, file_path) == MapPut(modules, file_path, 0)

included_modules_insert(modules, file_path) ==
    MapPut(modules, file_path, Cardinality(DOMAIN modules))

\* parse_file (parser.rs 18-36) on a written path, from a file; the text of a
\* file are fixed when it is first read
ParseFile(file_path, from, rest, text) ==
    LET resolved == resolve_path(file_path, from) IN
    IF resolved \in DOMAIN included_modules
    THEN \* Ok(None)
         /\ i_pc' = "parsing"
         /\ stack' = rest
         /\ UNCHANGED <<included_modules, file_contents, reads, decl_log>>
    ELSE IF ~fd_open(resolved)
    THEN /\ i_pc' = "error"
         /\ stack' = rest
         /\ UNCHANGED <<included_modules, file_contents, reads, decl_log>>
    ELSE /\ Len(rest) < MaxStack
         /\ IF resolved \in DOMAIN file_contents
            THEN text = file_contents[resolved]
            ELSE text \in Contents
         /\ i_pc' = "parsing"
         /\ reads' = Append(reads, resolved)
         /\ file_contents' = MapPut(file_contents, resolved, text)
         \* parse_file_contents (parser.rs 38-68)
         /\ included_modules' = included_modules_insert(included_modules, resolved)
         /\ stack' = Append(rest, [path |-> resolved, tokens |-> text])
         /\ UNCHANGED decl_log

\* the driver: parser::parse_file(ctx, file_name, &LoLocation::internal())
StartCompile(text) ==
    /\ i_pc = "start"
    /\ ParseFile([mode |-> "here", name |-> "a"], "", <<>>, text)
    /\ UNCHANGED notInclude

\* parse_top_level_expr on `include "PATH"` (parser.rs 543-571)
ParseInclude(text) ==
    /\ i_pc = "parsing" /\ stack # <<>>
    /\ LET top == stack[Len(stack)] IN
       /\ top.tokens # <<>> /\ Head(top.tokens).k = "include"
       /\ ParseFile(Head(top.tokens).file_path, top.path,
                    [stack EXCEPT ![Len(stack)].tokens = Tail(top.tokens)], text)
    /\ UNCHANGED notInclude

\* parse_top_level_expr on any other declaration
ParseDecl ==
    /\ i_pc = "parsing" /\ stack # <<>>
    /\ LET top == stack[Len(stack)] IN
       /\ top.tokens # <<>> /\ Head(top.tokens).k = "decl"
       /\ decl_log' = Append(decl_log, top.path)
       /\ stack' = [stack EXCEPT ![Len(stack)].tokens = Tail(top.tokens)]
    /\ UNCHANGED <<i_pc, included_modules, file_contents, reads>>
    /\ UNCHANGED notInclude

\* the end of parse_file_tokens (parser.rs 70-84): return to the including file
EndOfFile ==
    /\ i_pc = "parsing" /\ stack # <<>>
    /\ stack[Len(stack)].tokens = <<>>
    /\ stack' = SubSeq(stack, 1, Len(stack) - 1)
    /\ i_pc' = IF Len(stack) = 1 THEN "done" ELSE "parsing"
    /\ UNCHANGED <<included_modules, file_contents, reads, decl_log>>
    /\ UNCHANGED notInclude

IncludeInit ==
    /\ i_pc = "start"
    /\ included_modules = EmptyMap
    /\ stack = <<>>
    /\ file_contents = EmptyMap
    /\ reads = <<>>
    /\ decl_log = <<>>

IncludeNext ==
    \/ \E text \in Contents : StartCompile(text)
    \/ \E text \in Contents : ParseInclude(text)
    \/ ParseDecl
    \/ EndOfFile

----------------------------------------------------------------------------
\* EXPR as TYPE in a function body (parse_postfix, parser.rs 2000-2076) and in a
\* constant expression (parse_const_postfix, parser.rs 2672-2690)

MaxCasts == 2

I64FromI32Signed(expr) == [op |-> "I64FromI32Signed", expr |-> expr]
I64FromI32Unsigned(expr) == [op |-> "I64FromI32Unsigned", expr |-> expr]
I32FromI64(expr) == [op |-> "I32FromI64", expr |-> expr]

\* the types written after `as`
WantedTypes == {Prim("Bool"), Prim("U8"), Prim("I32"), Prim("U32"), Prim("I64"),
                Prim("U64"), Pointer(Prim("U8"))}

\* the operands: integer literals and `true`
CastOperands == {U32Const, I64Const, U64Const, Casted(U32Const, Prim("Bool"))}

CastRejected == [ok |-> FALSE, instr |-> NoInstr]

\* InfixOpTag::Cast of parse_postfix (parser.rs 2000-2076)
parse_cast(defs, primary, wanted_type) ==
    LET actual_type == get_type(primary)
        a == actual_type.tag
        w == wanted_type.tag
    IN  IF w \in {"Bool", "I8", "U8"} /\ a \in {"I32", "U32", "I64", "U64"}
        THEN [ok |-> TRUE, instr |-> Casted(primary, wanted_type)]
        ELSE IF w = "I64" /\ a = "I32"
        THEN [ok |-> TRUE, instr |-> I64FromI32Signed(primary)]
        ELSE IF w = "I64" /\ a = "U32"
        THEN [ok |-> TRUE, instr |-> I64FromI32Unsigned(primary)]
        ELSE IF w = "U64" /\ a = "I32"
        THEN [ok |-> TRUE, instr |-> Casted(I64FromI32Signed(primary), wanted_type)]
        ELSE IF w = "U64" /\ a = "U32"
        THEN [ok |-> TRUE, instr |-> Casted(I64FromI32Unsigned(primary), wanted_type)]
        ELSE IF w = "I32" /\ a \in {"I64", "U64"}
        THEN [ok |-> TRUE, instr |-> I32FromI64(primary)]
        ELSE IF w = "U32" /\ a \in {"I64", "U64"}
        THEN [ok |-> TRUE, instr |-> Casted(I32FromI64(primary), wanted_type)]
        ELSE IF emit_components(defs, actual_type) # emit_components(defs, wanted_type)
        THEN CastRejected
        ELSE [ok |-> TRUE, instr |-> Casted(primary, wanted_type)]

\* InfixOpTag::Cast of parse_const_postfix (parser.rs 2682)
parse_const_cast(defs, primary, wanted_type) ==
    [ok |-> TRUE, instr |-> Casted(primary, wanted_type)]

\* `EXPR as TYPE` where EXPR is the expression parsed so far
ParseCast(wanted_type) ==
    /\ cast_pc = "parsing" /\ last_cast.n < MaxCasts
    /\ LET parsed == IF cast_ctx = "const"
                     THEN parse_const_cast(EmptyMap, cast_expr, wanted_type)
                     ELSE parse_cast(EmptyMap, cast_expr, wanted_type)
       IN  /\ cast_pc' = IF parsed.ok THEN cast_pc ELSE "error"
           /\ cast_expr' = IF parsed.ok THEN parsed.instr ELSE cast_expr
           /\ last_cast' = [n |-> last_cast.n + 1, ok |-> parsed.ok,
                            primary |-> cast_expr, wanted_type |-> wanted_type]
    /\ UNCHANGED cast_ctx
    /\ UNCHANGED notCast

NoCast == [n |-> 0, ok |-> FALSE, primary |-> NoInstr, wanted_type |-> Prim("Void")]

CastIdle ==
    /\ cast_pc = "parsing"
    /\ cast_ctx = "body"
    /\ cast_expr = U32Const
    /\ last_cast = NoCast

CastInit ==
    /\ cast_pc = "parsing"
    /\ cast_ctx \in {"body", "const"}
    /\ cast_expr \in CastOperands
    /\ last_cast = NoCast

CastNext == \E wanted_type \in WantedTypes : ParseCast(wanted_type)

----------------------------------------------------------------------------
\* A bare symbol in a function body (the tail of parse_primary, parser.rs
\* 1450-1649) and the blocks it is looked up in

MaxBlocks == 3
MaxSymLocals == 2

SymNames == {"x", "y"}

\* the macro called is `macro m!(x: i64)`; its one parameter is x
MacroParams == <<"x">>

\* the argument written at the call site
ArgExprs == {I64Const}

LocalGet(local_index) == [op |-> "LocalGet", local_index |-> local_index]
GlobalGet(global_name) == [op |-> "GlobalGet", global_name |-> global_name]

\* Block { parent: Some(&ctx.block), ..Default::default() }
DefaultBlock(kind) ==
    [kind |-> kind, locals |-> EmptyMap, has_macro_args |-> FALSE, macro_args |-> EmptyMap]

\* the block of parse_macro_call (parser.rs 1773-1796)
MacroBlock(args) ==
    [kind |-> "macro", locals |-> EmptyMap, has_macro_args |-> TRUE,
     macro_args |-> [n \in {MacroParams[k] : k \in DOMAIN args} |->
                        args[CHOOSE k \in DOMAIN args : MacroParams[k] = n]]]

BlockLocals(chain_) == [k \in DOMAIN chain_ |-> chain_[k].locals]

SymFnDefs(tables) == [n \in tables.fn_defs |-> [local |-> TRUE, fn_index |-> 0]]
SymStructDefs(tables) == [n \in tables.struct_defs |-> [fields |-> <<>>, fully_defined |-> TRUE]]

parse_symbol_globals_first(tables, chain_, value) ==
    LET block == chain_[Len(chain_)]
        local == get_local(BlockLocals(chain_), value)
    IN  IF value \in tables.globals
        THEN [ok |-> TRUE, via |-> "global", instr |-> GlobalGet(value)]
        ELSE IF block.has_macro_args /\ value \in DOMAIN block.macro_args
        THEN [ok |-> TRUE, via |-> "macro_arg", instr |-> block.macro_args[value]]
        ELSE IF local.found
        THEN [ok |-> TRUE, via |-> "local", instr |-> LocalGet(local.index)]
        ELSE IF value \in tables.constants
        THEN [ok |-> TRUE, via |-> "constant", instr |-> U32Const]
        ELSE IF value \in tables.fn_defs
        THEN [ok |-> TRUE, via |-> "function", instr |-> parse_fn_call(SymFnDefs(tables), 0, value)]
        ELSE IF value \in tables.struct_defs
        THEN [ok |-> TRUE, via |-> "struct",
              instr |-> parse_struct_literal(SymStructDefs(tables), value, <<>>).instr]
        ELSE [ok |-> FALSE, via |-> "unknown", instr |-> NoInstr]

\* parse_primary from parse_nested_symbol on (parser.rs 1450-1649); the symbol
\* is not followed by `!`; chain_ ends with ctx.block
parse_symbol(tables, chain_, value) ==
    LET block == chain_[Len(chain_)]
        local == get_local(BlockLocals(chain_), value)
    IN  IF block.has_macro_args /\ value \in DOMAIN block.macro_args
        THEN [ok |-> TRUE, via |-> "macro_arg", instr |-> block.macro_args[value]]
        ELSE IF local.found
        THEN [ok |-> TRUE, via |-> "local", instr |-> LocalGet(local.index)]
        ELSE IF value \in tables.constants
        THEN [ok |-> TRUE, via |-> "constant", instr |-> U32Const]
        ELSE IF value \in tables.globals
        THEN [ok |-> TRUE, via |-> "global", instr |-> GlobalGet(value)]
        ELSE IF value \in tables.fn_defs
        THEN [ok |-> TRUE, via |-> "function", instr |-> parse_fn_call(SymFnDefs(tables), 0, value)]
        ELSE IF value \in tables.struct_defs
        THEN [ok |-> TRUE, via |-> "struct",
              instr |-> parse_struct_literal(SymStructDefs(tables), value, <<>>).instr]
        ELSE [ok |-> FALSE, via |-> "unknown", instr |-> NoInstr]

NoSymbol == [parsed |-> FALSE, value |-> "", ok |-> FALSE, via |-> "none", instr |-> NoInstr]

\* a bare symbol is parsed in ctx.block
ParseSymbol(value) ==
    /\ ~looked_up.parsed
    /\ LET found == parse_symbol(sym_tables, block_stack, value) IN
       looked_up' = [parsed |-> TRUE, value |-> value, ok |-> found.ok, via |-> found.via,
                    instr |-> found.instr]
    /\ UNCHANGED <<sym_tables, block_stack, sym_last_index>>
    /\ UNCHANGED notSym

\* `let NAME = 0` in ctx.block (parser.rs 1392-1415, define_local)
SymLet(local_name) ==
    /\ ~looked_up.parsed /\ sym_last_index < MaxSymLocals
    /\ LET top == Len(block_stack)
           defined == define_local(block_stack[top].locals, sym_last_index, local_name,
                                   Prim("U32"))
       IN  /\ defined.ok
           /\ block_stack' = [block_stack EXCEPT ![top].locals = defined.locals]
           /\ sym_last_index' = defined.last_index
    /\ UNCHANGED <<sym_tables, looked_up>>
    /\ UNCHANGED notSym

\* the body of `if` or `loop` is entered (parser.rs 1151-1158, 1187-1195)
EnterNested(kind) ==
    /\ ~looked_up.parsed /\ Len(block_stack) < MaxBlocks
    /\ block_stack' = Append(block_stack, DefaultBlock(kind))
    /\ UNCHANGED <<sym_tables, sym_last_index, looked_up>>
    /\ UNCHANGED notSym

\* `m!(ARG)`: the body of the macro is entered (parser.rs 1760-1799)
EnterMacro(args) ==
    /\ ~looked_up.parsed /\ Len(block_stack) < MaxBlocks
    /\ block_stack' = Append(block_stack, MacroBlock(args))
    /\ UNCHANGED <<sym_tables, sym_last_index, looked_up>>
    /\ UNCHANGED notSym

\* the parser moves past the symbol, or leaves the innermost block
SymContinue ==
    /\ \/ /\ looked_up.parsed /\ looked_up.ok
          /\ UNCHANGED block_stack
       \/ /\ ~looked_up.parsed /\ Len(block_stack) > 1
          /\ block_stack' = SubSeq(block_stack, 1, Len(block_stack) - 1)
    /\ looked_up' = NoSymbol
    /\ UNCHANGED <<sym_tables, sym_last_index>>
    /\ UNCHANGED notSym

SymTables ==
    [constants : SUBSET {"x"}, globals : SUBSET {"x"}, fn_defs : SUBSET {"x"},
     struct_defs : SUBSET {"x"}]

SymIdle ==
    /\ sym_tables = [constants |-> {}, globals |-> {}, fn_defs |-> {}, struct_defs |-> {}]
    /\ block_stack = <<DefaultBlock("function")>>
    /\ sym_last_index = 0
    /\ looked_up = NoSymbol

SymInit ==
    /\ sym_tables \in SymTables
    /\ block_stack = <<DefaultBlock("function")>>
    /\ sym_last_index = 0
    /\ looked_up = NoSymbol

SymNext ==
    \/ \E value \in SymNames : ParseSymbol(value)
    \/ \E local_name \in SymNames : SymLet(local_name)
    \/ \E kind \in {"if", "loop"} : EnterNested(kind)
    \/ \E arg \in ArgExprs : EnterMacro(<<arg>>)
    \/ SymContinue

----------------------------------------------------------------------------
\* The driver: _start and start (lib.rs 56-66, 121-144) around parse_file and
\* finalize; the modes handled before parser::init are not part of it

Modes == {"Compile", "Inspect", "Eval"}

\* if ctx.mode == CompilerMode::Compile (lib.rs 131)
dumps_binary_in_any_mode(compiler_mode) == TRUE

dumps_binary(compiler_mode) == compiler_mode = "Compile"

\* start() returns after parse_file and finalize succeeded (lib.rs 131-143);
\* in Eval mode the evaluation of the module can fail
StartReturns(eval_ok) ==
    /\ d_pc = "run" /\ m_pc = "done"
    /\ binary_out' = IF dumps_binary(mode)
                     THEN Append(binary_out, wasm_module)
                     ELSE binary_out
    /\ IF mode = "Eval" /\ ~eval_ok
       THEN /\ stderr' = stderr \o <<"err_message", "\n">>
            /\ exit_code' = 1
       ELSE /\ stderr' = stderr
            /\ exit_code' = 0
    /\ d_pc' = "exited"
    /\ UNCHANGED mode
    /\ UNCHANGED notDriver

\* parse_file or finalize returned an error: `?` leaves start() and _start
\* writes the message and exits (lib.rs 57-63, 127, 129)
StartFails ==
    /\ d_pc = "run" /\ m_pc = "error"
    /\ stderr' = stderr \o <<"err_message", "\n">>
    /\ exit_code' = 1
    /\ d_pc' = "exited"
    /\ UNCHANGED <<mode, binary_out>>
    /\ UNCHANGED notDriver

DriverIdle ==
    /\ mode = "Compile"
    /\ d_pc = "run"
    /\ binary_out = <<>>
    /\ stderr = <<>>
    /\ exit_code = -1

DriverInit ==
    /\ mode \in Modes
    /\ inspect_mode = (mode = "Inspect")
    /\ d_pc = "run"
    /\ binary_out = <<>>
    /\ stderr = <<>>
    /\ exit_code = -1

DriverNext ==
    \/ \E name \in FnNames, exported \in BOOLEAN : ParseFnDef(name, exported)
    \/ \E name \in GlobalNames, value \in GlobalValues : ParseLet(name, value)
    \/ FinalizeExports
    \/ \E missing_return \in BOOLEAN : LowerFnBody(<<>>, <<>>, missing_return)
    \/ LowerGlobals
    \/ WriteDebugInfo
    \/ \E eval_ok \in BOOLEAN : StartReturns(eval_ok)
    \/ StartFails

----------------------------------------------------------------------------
\* The locals of a function body: parameters (parse_fn_decl), locals and
\* temporaries (define_local, compile_load, compile_set_binds) and the
\* WasmLocals that finalize builds from them

MaxLocals == 3
MaxParams == 2

\* struct_defs after `struct P { x: i64, y: u8 };`
PointDefs ==
    MapPut(EmptyMap, "P",
       [fields |-> ParseStructFields(
                      MapPut(EmptyMap, "P", [fields |-> <<>>, fully_defined |-> FALSE]),
                      MapPut(EmptyMap, "P", StructInstance("P")),
                      <<[name |-> "x", type |-> TypeExpr(FALSE, "i64")],
                        [name |-> "y", type |-> TypeExpr(FALSE, "u8")]>>,
                      <<>>, [field_index |-> 0, byte_offset |-> 0]).fields,
        fully_defined |-> TRUE])

LocalTypes == {Prim("U32"), Prim("I64"), Prim("Void"), StructInstance("P"),
               Pointer(StructInstance("P"))}
CounterTypes == {Prim("U32"), Prim("I64")}
ParamLists == UNION {[1..n -> LocalTypes \ {Prim("Void")}] : n \in 0..MaxParams}

RECURSIVE wasm_type_inputs(_)
\* fn_decl.wasm_type.inputs: the components of the parameters (parser.rs 809-822)
wasm_type_inputs(params) ==
    IF params = <<>> THEN <<>>
    ELSE emit_components(PointDefs, Head(params)) \o wasm_type_inputs(Tail(params))

\* the LocalDef of the k-th parameter: its index is the number of inputs before
\* it (parser.rs 810-814)
ParamSlot(params, k) ==
    [index |-> Len(wasm_type_inputs(SubSeq(params, 1, k - 1))),
     count |-> Len(emit_components(PointDefs, params[k]))]

\* locals_last_index += comp_count (parser.rs 1687-1689)
define_local_slots_one_each(ctx, comps) ==
    [locals_last_index |-> ctx.locals_last_index + 1,
     non_arg_wasm_locals |-> ctx.non_arg_wasm_locals \o comps]

define_local_slots(ctx, comps) ==
    [locals_last_index |-> ctx.locals_last_index + Len(comps),
     non_arg_wasm_locals |-> ctx.non_arg_wasm_locals \o comps]

\* the slots of define_local for a value of value_type: [fn_ctx, slots]
alloc_local(ctx, value_type) ==
    LET comps == emit_components(PointDefs, value_type) IN
    [fn_ctx |-> define_local_slots(ctx, comps),
     slots |-> <<[index |-> ctx.locals_last_index, count |-> Len(comps)]>>]

\* one temporary: non_arg_wasm_locals.push(..); locals_last_index += 1
\* (parser.rs 2914-2916, 3022-3026)
alloc_temp(ctx, wasm_type) ==
    [fn_ctx |-> [locals_last_index |-> ctx.locals_last_index + 1,
                 non_arg_wasm_locals |-> Append(ctx.non_arg_wasm_locals, wasm_type)],
     slots |-> <<[index |-> ctx.locals_last_index, count |-> 1]>>]

RECURSIVE alloc_temps(_, _)
\* one temporary per primitive load, in order (parser.rs 3051-3053)
alloc_temps(ctx, wasm_types) ==
    IF wasm_types = <<>> THEN [fn_ctx |-> ctx, slots |-> <<>>]
    ELSE LET first == alloc_temp(ctx, Head(wasm_types))
             rest == alloc_temps(first.fn_ctx, Tail(wasm_types))
         IN  [fn_ctx |-> rest.fn_ctx, slots |-> first.slots \o rest.slots]

Allocated(a) ==
    /\ fn_ctx' = a.fn_ctx
    /\ local_slots' = local_slots \o a.slots
    /\ UNCHANGED <<a_pc, fn_params, wasm_locals>>
    /\ UNCHANGED notAlloc

\* `let NAME = EXPR` with EXPR of value_type (parser.rs 1392-1414)
LetLocal(value_type) ==
    /\ a_pc = "body" /\ Len(local_slots) < MaxLocals
    /\ Allocated(alloc_local(fn_ctx, value_type))

\* `for NAME in A..B` with counts of start_type (parser.rs 1261)
ForCounter(start_type) ==
    /\ a_pc = "body" /\ Len(local_slots) < MaxLocals
    /\ Allocated(alloc_local(fn_ctx, start_type))

\* `EXPR catch NAME { .. }` on a Result: the error local, then the local of the
\* ok value unless it is void (parser.rs 2336-2362)
CatchBinds(ok_type, err_type) ==
    /\ a_pc = "body" /\ Len(local_slots) < MaxLocals
    /\ LET bind_err == alloc_local(fn_ctx, err_type)
           bind_ok == IF ok_type # Prim("Void")
                      THEN alloc_local(bind_err.fn_ctx, ok_type)
                      ELSE [fn_ctx |-> bind_err.fn_ctx, slots |-> <<>>]
       IN  Allocated([fn_ctx |-> bind_ok.fn_ctx, slots |-> bind_err.slots \o bind_ok.slots])

\* compile_load of a struct through a pointer: a temporary for the address
\* (parser.rs 2903-2936)
LoadStruct ==
    /\ a_pc = "body" /\ Len(local_slots) < MaxLocals
    /\ Allocated(alloc_temp(fn_ctx, "I32"))

\* `*P = EXPR`: compile_load builds the bind, compile_set_binds takes one
\* temporary per primitive store (parser.rs 1441, 2871-2936, 3016-3062)
StoreThroughPointer(pointee_type) ==
    /\ a_pc = "body" /\ Len(local_slots) < MaxLocals
    /\ IF pointee_type.tag = "StructInstance"
       THEN LET address == alloc_temp(fn_ctx, "I32")
                stores == alloc_temps(address.fn_ctx,
                                      emit_components(PointDefs, pointee_type))
            IN  Allocated([fn_ctx |-> stores.fn_ctx,
                           slots |-> address.slots \o stores.slots])
       ELSE Allocated(alloc_temps(fn_ctx, emit_components(PointDefs, pointee_type)))

\* one turn of the loop over non_arg_wasm_locals (parser.rs 163-174)
push_wasm_locals_always(locals, local_type) ==
    Append(locals, [count |-> 1, value_type |-> local_type])

push_wasm_locals(locals, local_type) ==
    IF locals # <<>> /\ locals[Len(locals)].value_type = local_type
    THEN [locals EXCEPT ![Len(locals)].count = @ + 1]
    ELSE Append(locals, [count |-> 1, value_type |-> local_type])

RECURSIVE group_wasm_locals(_, _)
group_wasm_locals(locals, local_types) ==
    IF local_types = <<>> THEN locals
    ELSE group_wasm_locals(push_wasm_locals(locals, Head(local_types)), Tail(local_types))

\* finalize builds the locals of the code it pushes (parser.rs 162-182)
FinalizeLocals ==
    /\ a_pc = "body"
    /\ wasm_locals' = group_wasm_locals(<<>>, fn_ctx.non_arg_wasm_locals)
    /\ a_pc' = "done"
    /\ UNCHANGED <<fn_params, fn_ctx, local_slots>>
    /\ UNCHANGED notAlloc

AllocIdle ==
    /\ a_pc = "body"
    /\ fn_params = <<>>
    /\ fn_ctx = [locals_last_index |-> 0, non_arg_wasm_locals |-> <<>>]
    /\ local_slots = <<>>
    /\ wasm_locals = <<>>

\* the FnContext finalize starts a body with (parser.rs 108-114, 674)
AllocInit ==
    /\ a_pc = "body"
    /\ fn_params \in ParamLists
    /\ fn_ctx = [locals_last_index |-> Len(wasm_type_inputs(fn_params)),
                 non_arg_wasm_locals |-> <<>>]
    /\ local_slots = <<>>
    /\ wasm_locals = <<>>

AllocNext ==
    \/ \E value_type \in LocalTypes : LetLocal(value_type)
    \/ \E start_type \in CounterTypes : ForCounter(start_type)
    \/ \E ok_type \in LocalTypes, err_type \in CounterTypes : CatchBinds(ok_type, err_type)
    \/ LoadStruct
    \/ \E pointee_type \in LocalTypes \ {Prim("Void")} : StoreThroughPointer(pointee_type)
    \/ FinalizeLocals

----------------------------------------------------------------------------
\* Specifications

\* the top-level parser and finalize
ModIdle == ModInit /\ ~inspect_mode

Init == ModInit /\ StructInit /\ FnIdle /\ ForIdle /\ BranchInit /\ CatchInit /\ IncludeInit /\ CastIdle /\ SymIdle /\ MemIdle /\ DriverIdle /\ AllocIdle

Next == ModNext

Spec == Init /\ [][Next]_vars

\* a whole run of the compiler
DriverSpecInit ==
    /\ ModInit /\ StructInit /\ FnIdle /\ ForIdle /\ BranchInit /\ CatchInit /\ IncludeInit
    /\ CastIdle /\ SymIdle /\ MemIdle /\ DriverInit /\ AllocIdle

DriverSpecNext == DriverNext

DriverSpec == DriverSpecInit /\ [][DriverSpecNext]_vars /\ WF_vars(DriverSpecNext)

\* the locals of one function body
AllocSpecInit ==
    /\ ModIdle /\ StructInit /\ FnIdle /\ ForIdle /\ BranchInit /\ CatchInit /\ IncludeInit
    /\ CastIdle /\ SymIdle /\ MemIdle /\ DriverIdle /\ AllocInit

AllocSpecNext == AllocNext

AllocSpec == AllocSpecInit /\ [][AllocSpecNext]_vars

\* __DATA_SIZE__ in one compilation, in compile mode
DataSizeSpecInit ==
    /\ ModIdle /\ StructInit /\ FnIdle /\ ForIdle /\ BranchInit /\ CatchInit /\ IncludeInit
    /\ CastIdle /\ SymIdle /\ MemIdle /\ DriverIdle /\ AllocIdle

DataSizeSpecNext == DataSizeNext

DataSizeSpec == DataSizeSpecInit /\ [][DataSizeSpecNext]_vars

\* name-binding declarations
DeclSpecInit == Init

DeclSpecNext == DeclNext

DeclSpec == DeclSpecInit /\ [][DeclSpecNext]_vars

\* memory declarations
MemSpecInit == Init

MemSpecNext == MemNext

MemSpec == MemSpecInit /\ [][MemSpecNext]_vars

\* struct definitions and struct literals
StructSpecInit == ModIdle /\ StructInit /\ FnIdle /\ ForIdle /\ BranchInit /\ CatchInit /\ IncludeInit /\ CastIdle /\ SymIdle /\ MemIdle /\ DriverIdle /\ AllocIdle

StructSpecNext == StructNext

StructSpec == StructSpecInit /\ [][StructSpecNext]_vars

\* struct definitions parsed token by token
FieldsSpecInit == StructSpecInit

FieldsSpecNext == FieldsNext

FieldsSpec == FieldsSpecInit /\ [][FieldsSpecNext]_vars

\* one function body, in a module that declares struct P
FnSpecInit == ModIdle /\ StructPDeclared /\ FnInit /\ ForIdle /\ BranchInit /\ CatchInit /\ IncludeInit /\ CastIdle /\ SymIdle /\ MemIdle /\ DriverIdle /\ AllocIdle

FnSpecNext == FnNext

FnSpec == FnSpecInit /\ [][FnSpecNext]_vars

\* one for loop, parsed and run
ForSpecInit == ModIdle /\ StructInit /\ FnIdle /\ ForInit /\ BranchInit /\ CatchInit /\ IncludeInit /\ CastIdle /\ SymIdle /\ MemIdle /\ DriverIdle /\ AllocIdle

ForSpecNext == ForNext

ForSpec == ForSpecInit /\ [][ForSpecNext]_vars

\* break and continue in nested blocks of one function body
BranchSpecInit == ModIdle /\ StructInit /\ FnIdle /\ ForIdle /\ BranchInit /\ CatchInit /\ IncludeInit /\ CastIdle /\ SymIdle /\ MemIdle /\ DriverIdle /\ AllocIdle

BranchSpecNext == BranchNext

BranchSpec == BranchSpecInit /\ [][BranchSpecNext]_vars

\* lets and catch expressions of one function body
CatchSpecInit == ModIdle /\ StructInit /\ FnIdle /\ ForIdle /\ BranchInit /\ CatchInit /\ IncludeInit /\ CastIdle /\ SymIdle /\ MemIdle /\ DriverIdle /\ AllocIdle

CatchSpecNext == CatchNext

CatchSpec == CatchSpecInit /\ [][CatchSpecNext]_vars

\* function declarations, exports and calls of one module, in compile mode
CallSpecInit ==
    ModIdle /\ StructInit /\ FnIdle /\ ForIdle /\ BranchInit /\ CatchInit /\ IncludeInit /\ CastIdle /\ SymIdle /\ MemIdle /\ DriverIdle /\ AllocIdle

CallSpecNext == CallNext

CallSpec == CallSpecInit /\ [][CallSpecNext]_vars

\* chains of casts on one operand
CastSpecInit ==
    /\ ModIdle /\ StructInit /\ FnIdle /\ ForIdle /\ BranchInit /\ CatchInit /\ IncludeInit
    /\ CastInit /\ SymIdle /\ MemIdle /\ DriverIdle /\ AllocIdle

CastSpecNext == CastNext

CastSpec == CastSpecInit /\ [][CastSpecNext]_vars

\* symbols looked up in nested blocks and macro expansions
SymSpecInit ==
    /\ ModIdle /\ StructInit /\ FnIdle /\ ForIdle /\ BranchInit /\ CatchInit /\ IncludeInit
    /\ CastIdle /\ SymInit /\ MemIdle /\ DriverIdle /\ AllocIdle

SymSpecNext == SymNext

SymSpec == SymSpecInit /\ [][SymSpecNext]_vars

\* the files of one compilation; every step of the parser is eventually taken
IncludeSpecInit ==
    ModIdle /\ StructInit /\ FnIdle /\ ForIdle /\ BranchInit /\ CatchInit /\ IncludeInit /\ CastIdle /\ SymIdle /\ MemIdle /\ DriverIdle /\ AllocIdle

IncludeSpecNext == IncludeNext

IncludeSpec == IncludeSpecInit /\ [][IncludeSpecNext]_vars /\ WF_vars(IncludeSpecNext)

----------------------------------------------------------------------------
\* Properties of struct definitions and struct literals

\* C9 as stated: a struct literal the parser accepts emits exactly the components
\* of its struct type, one value per field of the definition, each of the field's
\* declared type, in declaration order.
C9_AcceptedLiteralFillsStruct ==
    literal.ok =>
        LET fields == struct_defs[literal.struct_name].fields
            values == literal.instr.expr.values
        IN  /\ lowered_components(struct_defs, literal.instr) =
                  emit_components(struct_defs, StructInstance(literal.struct_name))
            /\ Len(values) = Len(fields)
            /\ \A i \in DOMAIN values : get_type(values[i]) = fields[i].value_type

PrecedingFields(fields, k) == SubSeq(fields, 1, k - 1)

FieldByteLengths(defs, fields) ==
    [j \in 1..Len(fields) |-> byte_length(defs, fields[j].value_type)]

FieldComponentCounts(defs, fields) ==
    [j \in 1..Len(fields) |-> Len(emit_components(defs, fields[j].value_type))]

\* C10: in every struct definition each field's byte_offset is the sum of the byte
\* lengths of the fields before it and its field_index the sum of their component
\* counts (no padding), so the field byte lengths add up to the struct's byte length
\* and the component counts to its component count.
C10_FieldOffsetsArePrefixSums ==
    \A n \in DOMAIN struct_defs :
        struct_defs[n].fully_defined =>
            LET fields == struct_defs[n].fields
                stats == sized_comp_stats(struct_defs, StructInstance(n))
            IN  /\ \A k \in DOMAIN fields :
                      /\ fields[k].byte_offset =
                            SumSeq(FieldByteLengths(struct_defs, PrecedingFields(fields, k)))
                      /\ fields[k].field_index =
                            SumSeq(FieldComponentCounts(struct_defs, PrecedingFields(fields, k)))
                /\ fields # <<>> =>
                      LET last == fields[Len(fields)] IN
                      /\ last.byte_offset + byte_length(struct_defs, last.value_type)
                            = stats.byte_length
                      /\ last.field_index + Len(emit_components(struct_defs, last.value_type))
                            = stats.count

C10_Witness ==
    \E n \in DOMAIN struct_defs :
        /\ struct_defs[n].fully_defined
        /\ Len(struct_defs[n].fields) = 2
        /\ struct_defs[n].fields[1].value_type.tag = "StructInstance"
        /\ struct_defs[n].fields[2].field_index = 2
        /\ struct_defs[n].fields[2].byte_offset = 9
        /\ struct_defs[n].fields[2].value_type.tag = "Pointer"

----------------------------------------------------------------------------
\* Properties of function bodies

\* the Return instructions of the body: at the top level and in the branch of an if
AllReturns ==
    {contents.exprs[i] : i \in {j \in DOMAIN contents.exprs : contents.exprs[j].op = "Return"}}
    \cup UNION {{e.then_branch[1]} \cap {r \in {e.then_branch[1]} : r.op = "Return"} :
                  e \in {contents.exprs[i] :
                           i \in {j \in DOMAIN contents.exprs : contents.exprs[j].op = "If"}}}

\* the expressions deferred before a source position, in registration order
DeferredBefore(loc) ==
    LET before == SelectSeq(defer_log, LAMBDA d : d.loc < loc) IN
    [i \in 1..Len(before) |-> before[i].expr]

AllDeferred == [i \in 1..Len(defer_log) |-> defer_log[i].expr]

FellThrough == f_pc = "done" /\ ~contents.has_return /\ ~contents.has_never

C8_ReturnAndThrowEmitResultComponents ==
    \A r \in AllReturns :
        fn_output.tag = "Result" =>
            /\ lowered_components(struct_defs, r.pair) = emit_components(struct_defs, fn_output)
            /\ r.by = "return" =>
                  r.pair.values[2] = get_default_value(struct_defs, fn_output.err_type)
            /\ r.by = "throw" =>
                  r.pair.values[1] = get_default_value(struct_defs, fn_output.ok_type)

----------------------------------------------------------------------------
\* Properties of for loops

Max(a, b) == IF a >= b THEN a ELSE b

\* C5 as stated: a for loop from A to B over constants of one integer type runs
\* its body exactly max(0, B - A) times, zero times when A > B.
C5_ForBodyRunsDifferenceTimes ==
    /\ for_pc \notin {"parse", "error"} => body_runs <= Max(0, end_count - start_count)
    /\ for_pc = "done" => body_runs = Max(0, end_count - start_count)

----------------------------------------------------------------------------
\* Properties of break and continue

\* how many labels lie between a statement and the innermost label of some role
LabelsUpTo(around, roles) ==
    LET at == {i \in DOMAIN around : around[i] \in roles} IN
    IF at = {} THEN -1
    ELSE Len(around) - (CHOOSE i \in at : \A j \in at : j <= i)

\* C6 as stated: the label index of a break is the number of labels between it
\* and the block wrapping the innermost enclosing loop, that of a continue the
\* number of labels up to the header of the innermost `loop` or the body block of
\* the innermost `for`, through any nesting of if, else, catch and macro blocks.
C6_BranchCountsLabelsToItsLoop ==
    /\ branch.kind = "break" =>
          branch.label_index = LabelsUpTo(branch.labels, {"loop_wrapper", "for_wrapper"})
    /\ branch.kind = "continue" =>
          branch.label_index = LabelsUpTo(branch.labels, {"loop_header", "for_body"})

----------------------------------------------------------------------------
\* Properties of catch

\* C7 as stated: a catch body that names the bound error compiles, and the name
\* resolves to the local that the catch defines for the error.
C7_CatchBindInScopeInBody ==
    \A k \in DOMAIN catches :
        catches[k].symbol = catches[k].bind =>
            /\ catches[k].compiled
            /\ catches[k].symbol_index = catches[k].bind_index

----------------------------------------------------------------------------
\* Properties of include

\* every file read is recorded with its index in first-seen order, and is read once
ReadOnceAndRecorded ==
    /\ \A i, j \in DOMAIN reads : reads[i] = reads[j] => i = j
    /\ DOMAIN included_modules = {reads[i] : i \in DOMAIN reads}
    /\ \A i \in DOMAIN reads : included_modules[reads[i]] = i - 1
    /\ \A k \in DOMAIN decl_log : decl_log[k] \in DOMAIN included_modules
    /\ \A k \in DOMAIN stack : stack[k].path \in DOMAIN included_modules

\* a step that reads no file leaves the recorded files as they are
NoReadNoChange ==
    reads' = reads =>
        included_modules' = included_modules /\ file_contents' = file_contents

\* C11: every resolved path is read and parsed at most once, it is recorded before
\* its declarations are parsed, an include of a recorded path changes nothing, and
\* the compilation of any include graph, cyclic or not, comes to an end.
C11_EachFileParsedOnceAndCompilationEnds ==
    /\ []ReadOnceAndRecorded
    /\ [][NoReadNoChange]_vars
    /\ <>(i_pc \in {"done", "error"})

\* a finished compilation of a file that includes itself and d/a, which includes
\* the first file back
C11_Witness ==
    /\ i_pc = "done"
    /\ reads = <<"a", "d/a">>
    /\ file_contents["a"] = <<[k |-> "include", file_path |-> [mode |-> "here", name |-> "a"]],
                              [k |-> "include", file_path |-> [mode |-> "down", name |-> "a"]]>>
    /\ file_contents["d/a"] = <<[k |-> "include", file_path |-> [mode |-> "up", name |-> "a"]],
                                [k |-> "decl"]>>
    /\ decl_log = <<"d/a">>

----------------------------------------------------------------------------
\* Properties of the order of finalize

SomeGlobalLowered ==
    \E i \in DOMAIN wasm_module.globals : wasm_module.globals[i].initial_value # <<>>

AllGlobalsLowered ==
    \A n \in DOMAIN globals : LoweredGlobal(n) = lower_expr(globals[n].value, data_size)

\* exports, then bodies, then globals, then the name section
PhasesInOrder ==
    /\ wasm_module.codes # <<>> =>
          /\ Len(wasm_module.exports) = Len(fn_exports)
          /\ \A i \in DOMAIN fn_exports :
                wasm_module.exports[i].export_name = fn_exports[i].out_name
    /\ SomeGlobalLowered =>
          /\ fn_bodies = <<>>
          /\ Len(wasm_module.codes) = wasm_module.functions
          /\ AllGlobalsLowered
    /\ wasm_module.custom.written => AllGlobalsLowered /\ m_pc = "done"

\* a later phase never returns to an earlier one
NoPhaseRevisited ==
    /\ wasm_module.codes # <<>> => wasm_module'.exports = wasm_module.exports
    /\ SomeGlobalLowered =>
          /\ wasm_module'.codes = wasm_module.codes
          /\ wasm_module'.globals = wasm_module.globals
          /\ data_size' = data_size
    /\ wasm_module.custom.written => wasm_module' = wasm_module

\* C12: finalize pushes the function exports, then lowers every pending body, then
\* lowers the global initializers, then writes the name section; no initializer is
\* lowered while a body is pending, so a lowered __DATA_SIZE__ is the final one
\* (in compile mode; inspect mode emits nothing).
C12_FinalizePhasesInOrder ==
    /\ [](~inspect_mode => PhasesInOrder)
    /\ [][~inspect_mode => NoPhaseRevisited]_vars

\* a finished module with an export, a lowered body that pooled the only string,
\* and a global that holds the resulting __DATA_SIZE__
C12_Witness ==
    /\ m_pc = "done" /\ ~inspect_mode
    /\ wasm_module.custom.written
    /\ wasm_module.exports # <<>>
    /\ wasm_module.codes # <<>>
    /\ constants = EmptyMap
    /\ data_size > 0
    /\ \E n \in LazyGlobals : LoweredGlobal(n) = <<[op |-> "I32Const", value |-> data_size]>>

----------------------------------------------------------------------------
\* Properties of function declarations and function indices

FnListsUnchanged ==
    /\ fn_defs' = fn_defs
    /\ fn_exports' = fn_exports
    /\ fn_bodies' = fn_bodies
    /\ wasm_module'.functions = wasm_module.functions
    /\ wasm_module'.imports = wasm_module.imports

\* a declaration that takes effect adds one new name and touches no older entry
AddsOneNewFunction ==
    /\ m_pc' = "parse"
    /\ \E name \in DOMAIN fn_defs' :
          /\ name \notin DOMAIN fn_defs
          /\ DOMAIN fn_defs' = DOMAIN fn_defs \cup {name}
    /\ \A n \in DOMAIN fn_defs : fn_defs'[n] = fn_defs[n]

OnlyDeclCounted ==
    /\ decls' # decls
    /\ FnListsUnchanged
    /\ <<globals, constants, wasm_module, string_pool, data_size>>' =
          <<globals, constants, wasm_module, string_pool, data_size>>

DuplicateFnRejected ==
    m_pc = "parse" =>
        /\ ~FnListsUnchanged /\ fn_defs' # fn_defs => AddsOneNewFunction
        /\ ~FnListsUnchanged /\ fn_defs' = fn_defs =>
              \* only `export existing` of a declared function
              /\ wasm_module' = wasm_module /\ fn_bodies' = fn_bodies
              /\ \E e \in {fn_exports'[Len(fn_exports')]} :
                    e.in_name \in DOMAIN fn_defs /\ fn_exports' = Append(fn_exports, e)
        /\ m_pc' = "error" => FnListsUnchanged
        /\ OnlyDeclCounted => m_pc' = "error"

\* C13: a function declaration (fn, export fn, or fn in an import block) whose
\* name is already in fn_defs, as a local or as an import, fails, and the failing
\* declaration leaves fn_defs, fn_exports, fn_bodies, the function list and the
\* import list as they were; a declaration that succeeds adds a new name.
C13_DuplicateFunctionIsRejected == [][DuplicateFnRejected]_vars

\* the third declaration failed: f and g are declared, one as a local and one as
\* an import, and nothing is exported
C13_Witness ==
    /\ m_pc = "error" /\ decls = 3
    /\ DOMAIN fn_defs = {"f", "g"}
    /\ fn_defs["f"].local /\ ~fn_defs["g"].local
    /\ fn_exports = <<>>
    /\ wasm_module.functions = 1 /\ Len(wasm_module.imports) = 1 /\ Len(fn_bodies) = 1

\* the index of a function in the finished module: imports first, in the order of
\* the import list, then the local functions in the order of the function list
FinalIndex(name) ==
    IF fn_defs[name].local
    THEN Len(wasm_module.imports) + fn_defs[name].fn_index
    ELSE CHOOSE i \in 0..(Len(wasm_module.imports) - 1) : wasm_module.imports[i + 1] = name

\* C14: once all declarations are parsed the absolute indices of fn_defs are
\* pairwise distinct and cover 0 .. imports + locals - 1, imports below locals;
\* every call in a lowered body and every function export uses the callee's
\* final index, whatever the order of the declarations.
C14_CallsAndExportsUseFinalIndex ==
    m_pc \in {"bodies", "debug", "done"} =>
        /\ Len(wasm_module.imports) = imported_fns_count
        /\ \A n, m \in DOMAIN fn_defs : FinalIndex(n) = FinalIndex(m) => n = m
        /\ {FinalIndex(n) : n \in DOMAIN fn_defs} =
              0..(imported_fns_count + wasm_module.functions - 1)
        /\ \A n, m \in DOMAIN fn_defs :
              ~fn_defs[n].local /\ fn_defs[m].local => FinalIndex(n) < FinalIndex(m)
        /\ \A k \in DOMAIN wasm_module.codes :
              /\ wasm_module.codes[k].fn_index = k - 1
              /\ \A c \in DOMAIN wasm_module.codes[k].calls :
                    wasm_module.codes[k].calls[c].fn_index =
                        FinalIndex(wasm_module.codes[k].calls[c].fn_name)
        /\ \A i \in DOMAIN wasm_module.exports :
              wasm_module.exports[i].exported_item_index = FinalIndex(fn_exports[i].in_name)

\* a finished module whose exported local function calls an import and itself
C14_Witness ==
    /\ m_pc = "done"
    /\ imported_fns_count = 1
    /\ \E k \in DOMAIN wasm_module.codes :
          /\ Len(wasm_module.codes[k].calls) = 2
          /\ wasm_module.codes[k].calls[1].fn_index = 0
          /\ wasm_module.codes[k].calls[2].fn_index = 1
    /\ \E i \in DOMAIN wasm_module.exports : wasm_module.exports[i].exported_item_index = 1

----------------------------------------------------------------------------
\* Properties of casts

\* C15 as stated: an accepted cast that only overlays the wanted type on its
\* operand, with no conversion instruction, is between types of equal component
\* sequences, in function bodies and in constant expressions alike.
C15_OverlayCastKeepsComponents ==
    last_cast.n > 0 /\ last_cast.ok /\ cast_expr = Casted(last_cast.primary, last_cast.wanted_type) =>
        emit_components(EmptyMap, get_type(last_cast.primary)) =
            emit_components(EmptyMap, last_cast.wanted_type)

----------------------------------------------------------------------------
\* Properties of symbol lookup

\* the blocks of the innermost macro expansion that ctx.block is part of
EnclosingMacros == {k \in DOMAIN block_stack : block_stack[k].has_macro_args}

InnermostMacro == CHOOSE k \in EnclosingMacros : \A j \in EnclosingMacros : j <= k

\* C16 as stated: anywhere inside a macro expansion, at the top level of the
\* body or in a nested block of it, a reference to a parameter of the macro
\* resolves to the argument of the call, whatever locals the caller has.
C16_MacroParameterResolvesToArgument ==
    /\ looked_up.parsed
    /\ EnclosingMacros # {}
    /\ looked_up.value \in DOMAIN block_stack[InnermostMacro].macro_args
    => /\ looked_up.ok
       /\ looked_up.instr = block_stack[InnermostMacro].macro_args[looked_up.value]

IsMacroArg(value) ==
    LET block == block_stack[Len(block_stack)] IN
    block.has_macro_args /\ value \in DOMAIN block.macro_args

IsLocal(value) == \E k \in DOMAIN block_stack : value \in DOMAIN block_stack[k].locals

\* the namespaces that know the symbol, in the order of the lookup
Matches(value) ==
    <<IsMacroArg(value), IsLocal(value), value \in sym_tables.constants,
      value \in sym_tables.globals, value \in sym_tables.fn_defs,
      value \in sym_tables.struct_defs>>

Namespaces == <<"macro_arg", "local", "constant", "global", "function", "struct">>

\* C17: a bare symbol resolves in the first of: macro arguments of the current
\* block, locals, constants, globals, functions, structs that knows it, and is an
\* 'unknown variable' error when none does; a local is the innermost one.
C17_SymbolResolvedInOrder ==
    looked_up.parsed =>
        LET m == Matches(looked_up.value) IN
        /\ \A k \in 1..6 :
              (looked_up.via = Namespaces[k]) <=> (m[k] /\ \A j \in 1..(k - 1) : ~m[j])
        /\ (looked_up.via = "unknown" /\ ~looked_up.ok) <=> (\A k \in 1..6 : ~m[k])
        /\ looked_up.via = "local" =>
              \E k \in DOMAIN block_stack :
                 /\ looked_up.value \in DOMAIN block_stack[k].locals
                 /\ looked_up.instr = LocalGet(block_stack[k].locals[looked_up.value])
                 /\ \A j \in (k + 1)..Len(block_stack) :
                       looked_up.value \notin DOMAIN block_stack[j].locals

\* a symbol known as a local of an outer block, a constant, a global, a function
\* and a struct is read as the local
C17_Witness ==
    /\ looked_up.parsed /\ looked_up.via = "local"
    /\ Len(block_stack) > 1
    /\ looked_up.value \notin DOMAIN block_stack[Len(block_stack)].locals
    /\ looked_up.value \in sym_tables.constants \cap sym_tables.globals
    /\ looked_up.value \in sym_tables.fn_defs \cap sym_tables.struct_defs

----------------------------------------------------------------------------
\* Properties of the end of a function body and of return and throw

\* finalize reached the end of a body that has no return, no throw and no
\* statement of type never at its top level
EndedWithoutReturn ==
    /\ f_pc = "done" \/ f_error \in {TerminatesButNever, MissingReturn}
    /\ ~contents.has_return /\ ~contents.has_never

BodyWithDeferred ==
    [i \in 1..(stmts + Len(defer_log)) |->
        IF i <= stmts THEN contents.exprs[i] ELSE Reverse(AllDeferred)[i - stmts]]

\* C18: a body that ends without return, throw or never-typed statement is
\* accepted for a void output, with no value appended after the deferred
\* expressions, and for a Result of void and E, with the default of E appended
\* after the deferred expressions; an output of never gives the 'terminates but
\* is marked as never' error and any other output 'Missing return expression',
\* and neither error pushes a code entry.
C18_FallThroughNeedsVoidOutput ==
    EndedWithoutReturn =>
        /\ Len(contents.exprs) >= stmts + Len(defer_log)
        /\ fn_output = Prim("Void") =>
              /\ f_pc = "done" /\ f_error = ""
              /\ contents.exprs = BodyWithDeferred
              /\ f_codes = <<[exprs |-> contents.exprs]>>
        /\ fn_output.tag = "Result" /\ fn_output.ok_type = Prim("Void") =>
              /\ f_pc = "done" /\ f_error = ""
              /\ contents.exprs =
                    Append(BodyWithDeferred, get_default_value(struct_defs, fn_output.err_type))
              /\ f_codes = <<[exprs |-> contents.exprs]>>
        /\ fn_output = Prim("Never") =>
              f_pc = "error" /\ f_error = TerminatesButNever /\ f_codes = <<>>
        /\ /\ fn_output \notin {Prim("Void"), Prim("Never")}
           /\ ~(fn_output.tag = "Result" /\ fn_output.ok_type = Prim("Void"))
           => f_pc = "error" /\ f_error = MissingReturn /\ f_codes = <<>>

\* a body with a defer and a return inside an if, in a function of a Result of
\* u32 and u32, has ended with 'Missing return expression'
C18_Witness ==
    /\ EndedWithoutReturn
    /\ fn_output = Result(Prim("U32"), Prim("U32"))
    /\ f_error = MissingReturn
    /\ defer_log # <<>>
    /\ \E r \in AllReturns : r.by = "return"

\* C19: throw E is accepted exactly when the output is a Result whose error type
\* is the type of E, and is a type error otherwise; return E is accepted exactly
\* when the type of E is the output, or the ok type of a Result output, and is a
\* type error otherwise.
C19_ThrowAndReturnAreTypeChecked ==
    last_stmt.stmt.k \in {"return", "throw", "if"} =>
        LET s == IF last_stmt.stmt.k = "if" THEN last_stmt.stmt.then_stmt ELSE last_stmt.stmt
            is_result == fn_output.tag = "Result"
        IN  /\ s.k = "throw" =>
                  /\ last_stmt.ok <=> (is_result /\ get_type(s.expr) = fn_output.err_type)
                  /\ ~is_result => f_error = "TypeError: Cannot throw"
                  /\ is_result /\ ~last_stmt.ok => f_error = "TypeError: Invalid throw type"
            /\ s.k = "return" =>
                  /\ last_stmt.ok <=>
                        get_type(s.expr) = (IF is_result THEN fn_output.ok_type ELSE fn_output)
                  /\ ~last_stmt.ok => f_error = "TypeError: Invalid return type"
            /\ ~last_stmt.ok => f_pc = "error"

\* a throw of a u32 was rejected in a function that returns u32, after a return
\* of a u32 was accepted in it
C19_Witness ==
    /\ last_stmt.stmt.k = "throw" /\ ~last_stmt.ok
    /\ last_stmt.stmt.expr = U32Const
    /\ fn_output = Prim("U32")
    /\ \E r \in AllReturns : r.by = "return"

----------------------------------------------------------------------------
\* Properties of partially defined structs

\* the struct named by the type parsed last is declared and not fully defined
NamedPartialStruct ==
    /\ last_type.parsed
    /\ last_type.type.name \in DOMAIN struct_defs
    /\ ~struct_defs[last_type.type.name].fully_defined

PartialWhileFieldsParsed ==
    /\ s_pc = "fields" => ~struct_defs[cur_struct.name].fully_defined
    /\ NamedPartialStruct =>
          IF last_type.type.ref
          THEN last_type.ok
          ELSE ~last_type.ok /\ last_type.message = PartiallyDefined /\ s_pc = "error"

\* fully_defined turns true only with the closing brace of the struct being
\* parsed, and a fully defined struct stays so
FullyDefinedOnlyAtClose ==
    \A n \in DOMAIN struct_defs' :
        /\ (n \in DOMAIN struct_defs /\ struct_defs[n].fully_defined) =>
              struct_defs'[n].fully_defined
        /\ (struct_defs'[n].fully_defined
            /\ ~(n \in DOMAIN struct_defs /\ struct_defs[n].fully_defined)) =>
              /\ s_pc = "fields" /\ cur_struct.name = n /\ s_pc' = "top"
              /\ n \in DOMAIN struct_defs
              /\ struct_defs'[n].fields = cur_struct.fields

\* C20: a struct is not fully defined while its fields are parsed; naming it by
\* value then is rejected with 'Cannot use partially defined struct' and naming
\* it behind a pointer is accepted; fully_defined becomes true only once the
\* closing brace is consumed and never becomes false again.
C20_PartiallyDefinedStruct ==
    []PartialWhileFieldsParsed /\ [][FullyDefinedOnlyAtClose /\ DOMAIN struct_defs \subseteq DOMAIN struct_defs']_vars

\* struct Q with a field of type &Q was closed and is fully defined, and inside
\* struct P a field names P by value
C20_Witness ==
    /\ "Q" \in DOMAIN struct_defs /\ struct_defs["Q"].fully_defined
    /\ \E i \in DOMAIN struct_defs["Q"].fields :
          struct_defs["Q"].fields[i].value_type = Pointer(StructInstance("Q"))
    /\ last_type.parsed /\ last_type.type = TypeExpr(FALSE, "P") /\ ~last_type.ok
    /\ cur_struct.name = "P"

----------------------------------------------------------------------------
\* Properties of memory declarations

MemExports ==
    {i \in DOMAIN wasm_module.exports : wasm_module.exports[i].export_type = "Mem"}

AtMostOneMemory ==
    /\ Len(wasm_module.memories) <= 1
    /\ DOMAIN memories = IF Len(wasm_module.memories) = 1 THEN {"memory"} ELSE {}
    /\ \A n \in DOMAIN memories : memories[n] = 0
    /\ Cardinality(MemExports) <= Len(wasm_module.memories)
    /\ \A i \in MemExports :
          /\ wasm_module.exports[i].export_name = "memory"
          /\ wasm_module.exports[i].exported_item_index = 0

MemoryDeclStep ==
    /\ (mem_last'.n # mem_last.n /\ Len(wasm_module.memories) = 1) =>
          /\ mem_error' = DuplicateMemory /\ m_pc' = "error"
          /\ wasm_module' = wasm_module /\ memories' = memories
    /\ (mem_last'.n # mem_last.n /\ Len(wasm_module.memories) = 0) =>
          /\ Len(wasm_module'.memories) = 1 /\ mem_error' = ""
          /\ wasm_module'.datas = wasm_module.datas
          /\ wasm_module'.exports =
                IF mem_last'.exported
                THEN Append(wasm_module.exports,
                            [export_type |-> "Mem", export_name |-> "memory",
                             exported_item_index |-> 0])
                ELSE wasm_module.exports
    /\ (mem_last'.n = mem_last.n) =>
          /\ wasm_module'.memories = wasm_module.memories
          /\ memories' = memories
          /\ {i \in DOMAIN wasm_module'.exports : wasm_module'.exports[i].export_type = "Mem"}
                = MemExports
    /\ (wasm_module'.datas # wasm_module.datas) =>
          /\ Len(wasm_module'.datas) = Len(wasm_module.datas) + 1
          /\ wasm_module'.exports = wasm_module.exports
          /\ mem_last'.n = mem_last.n

\* C21: a module has at most one memory; a second memory declaration, exported
\* or not, is rejected as a duplicate and changes nothing; `export memory` adds
\* exactly one Mem export named "memory"; `memory @OFFSET = "BYTES"` appends a
\* data segment only.
C21_AtMostOneMemory ==
    []AtMostOneMemory /\ [][MemoryDeclStep]_vars

\* an exported memory and a data segment are declared, and a second memory
\* declaration was rejected
C21_Witness ==
    /\ Len(wasm_module.memories) = 1
    /\ MemExports # {}
    /\ wasm_module.datas # <<>>
    /\ mem_error = DuplicateMemory

----------------------------------------------------------------------------
\* Properties of the driver

BinaryOnlyAfterSuccess ==
    /\ binary_out # <<>> =>
          /\ m_pc = "done" /\ mode = "Compile" /\ fn_bodies = <<>>
          /\ binary_out = <<wasm_module>>
    /\ m_pc = "error" => binary_out = <<>>
    /\ (d_pc = "exited" /\ m_pc = "error") =>
          exit_code = 1 /\ stderr = <<"err_message", "\n">>
    /\ (d_pc = "exited" /\ m_pc = "done" /\ mode # "Eval") =>
          exit_code = 0 /\ stderr = <<>>
    /\ d_pc = "run" => exit_code = -1 /\ stderr = <<>> /\ binary_out = <<>>

\* after the first error nothing of the module context changes any more
LaterPhasesSkipped == m_pc = "error" => modVars' = modVars

\* C22: the first error of parse_file or finalize ends the compilation: no
\* later phase runs, no binary is written, the message goes to the error stream
\* and the process exits with code 1; a binary is written only after both
\* succeeded and only in Compile mode.
C22_FirstErrorAbortsCompilation ==
    /\ []BinaryOnlyAfterSuccess
    /\ [][LaterPhasesSkipped]_vars
    /\ (m_pc = "error") ~> (exit_code = 1)

\* finalize failed on the second function body, in Compile mode, and the process
\* has exited
C22_Witness ==
    /\ mode = "Compile" /\ m_pc = "error" /\ d_pc = "exited"
    /\ Len(wasm_module.codes) = 1 /\ fn_bodies # <<>>
    /\ exit_code = 1

----------------------------------------------------------------------------
\* Properties of file indices

IndicesInOrderOfEntry ==
    /\ DOMAIN included_modules = {reads[k] : k \in DOMAIN reads}
    /\ \A k \in DOMAIN reads : included_modules[reads[k]] = k - 1
    /\ {included_modules[f] : f \in DOMAIN included_modules} =
          0..(Cardinality(DOMAIN included_modules) - 1)
    /\ \A j \in 1..(Len(stack) - 1) :
          included_modules[stack[j].path] < included_modules[stack[j + 1].path]

IndexKept ==
    \A f \in DOMAIN included_modules :
        f \in DOMAIN included_modules' /\ included_modules'[f] = included_modules[f]

\* C23: included_modules maps the n files parsed so far to the indices 0..n-1 in
\* the order in which they were first entered, a file has a smaller index than
\* the files it is the first to include, and an index is never changed or reused.
C23_FileIndicesFollowEntryOrder ==
    []IndicesInOrderOfEntry /\ [][IndexKept]_vars

\* the second file is being parsed, entered from the first, and includes the
\* first again
C23_Witness ==
    /\ Len(stack) = 2
    /\ Cardinality(DOMAIN included_modules) = 2
    /\ included_modules[stack[2].path] = 1
    /\ stack[2].tokens # <<>> /\ Head(stack[2].tokens).k = "include"
    /\ resolve_path(Head(stack[2].tokens).file_path, stack[2].path) = stack[1].path

----------------------------------------------------------------------------
\* C24: a top-level declaration of a name already defined in its namespace is
\* rejected with the message of its kind and leaves the existing binding as it
\* was: a second `let`, a second `const`, a `struct` or `type` whose name is in
\* the type scope, a second `macro`, and a field name repeated in one struct.
\* The message is the one of the duplicate when the rest of the declaration (the
\* type a `type` names) parses.

\* m keeps every binding it has
Kept(m, m_next) == \A n \in DOMAIN m : n \in DOMAIN m_next /\ m_next[n] = m[n]

BindingsKept ==
    /\ Kept(globals, globals') /\ Kept(constants, constants')
    /\ Kept(type_scope, type_scope') /\ Kept(macros, macros')
    /\ Kept(wasm_module.globals, wasm_module'.globals)
    /\ \A n \in DOMAIN struct_defs :
          /\ n \in DOMAIN struct_defs'
          /\ struct_defs[n].fully_defined => struct_defs'[n] = struct_defs[n]
    /\ cur_struct'.name = cur_struct.name => Kept(cur_struct.fields, cur_struct'.fields)

RejectedBy(pc, error, message) == pc = "error" /\ error = message

DuplicateRejected ==
    /\ \A name \in GlobalNames, value \in GlobalValues :
          ParseLet(name, value) /\ name \in DOMAIN globals
             => /\ RejectedBy(m_pc', decl_error', "Cannot redefine global: " \o name)
                /\ globals' = globals /\ wasm_module' = wasm_module
    /\ \A name \in ConstNames, value \in Strings :
          ParseConst(name, value) /\ name \in DOMAIN constants
             => /\ RejectedBy(m_pc', decl_error', "Duplicate constant: " \o name)
                /\ constants' = constants
    /\ \A struct_name \in StructNames :
          BeginStruct(struct_name) /\ struct_name \in DOMAIN type_scope
             => /\ RejectedBy(s_pc', s_error', "Cannot redefine type " \o struct_name)
                /\ type_scope' = type_scope /\ struct_defs' = struct_defs
    /\ \A type_alias \in AliasNames, written \in AliasTypes :
          ParseTypeAlias(type_alias, written) /\ type_alias \in DOMAIN type_scope
             => /\ s_pc' = "error"
                /\ parse_lo_type_(struct_defs, type_scope, written).ok
                      => s_error' = "Cannot redefine type: " \o type_alias
                /\ type_scope' = type_scope /\ struct_defs' = struct_defs
    /\ \A macro_name \in MacroNames, written \in TypeParamLists :
          ParseMacroDef(macro_name, written) /\ macro_name \in DOMAIN macros
             => /\ RejectedBy(s_pc', s_error', "Cannot redefine macro: " \o macro_name)
                /\ macros' = macros
    /\ \A f \in DeclFields :
          /\ ParseField(f)
          /\ \E i \in DOMAIN cur_struct.fields : cur_struct.fields[i].name = f.name
          => /\ RejectedBy(s_pc', s_error', "Found duplicate struct field name")
             /\ cur_struct' = cur_struct /\ struct_defs' = struct_defs

C24_DuplicateNameRejected == [][BindingsKept /\ DuplicateRejected]_vars

\* a second `macro m!` was rejected and the first is still bound
C24_Witness ==
    /\ s_pc = "error" /\ s_error = "Cannot redefine macro: m"
    /\ "m" \in DOMAIN macros /\ macros["m"].type_params = <<"T">>

----------------------------------------------------------------------------
\* C25: the WasmLocals of a pushed code are a run-length encoding of
\* non_arg_wasm_locals: the groups expanded in order give the local types
\* back, every count is at least 1, and adjacent groups differ in value_type.

RECURSIVE Expand(_)
Expand(groups) ==
    IF groups = <<>> THEN <<>>
    ELSE [i \in 1..Head(groups).count |-> Head(groups).value_type] \o Expand(Tail(groups))

C25_WasmLocalsRunLength ==
    a_pc = "done" =>
       /\ Expand(wasm_locals) = fn_ctx.non_arg_wasm_locals
       /\ \A i \in DOMAIN wasm_locals : wasm_locals[i].count >= 1
       /\ \A i \in 1..(Len(wasm_locals) - 1) :
             wasm_locals[i].value_type # wasm_locals[i + 1].value_type

\* a body whose locals fall into two groups, one of them of several locals
C25_Witness ==
    /\ a_pc = "done"
    /\ Len(wasm_locals) = 2
    /\ wasm_locals[1].count = 2 /\ wasm_locals[2].count = 1

----------------------------------------------------------------------------
\* C26: while a body is lowered, locals_last_index is the number of parameter
\* components plus the length of non_arg_wasm_locals, and the slot ranges of the
\* locals and temporaries are pairwise disjoint and disjoint from the
\* parameters' slots.

ParamComponents == SumSeq([k \in DOMAIN fn_params |-> ParamSlot(fn_params, k).count])

SlotRange(slot) == slot.index..(slot.index + slot.count - 1)

C26_LocalSlotsDisjoint ==
    /\ fn_ctx.locals_last_index = ParamComponents + Len(fn_ctx.non_arg_wasm_locals)
    /\ \A i, j \in DOMAIN local_slots :
          i # j => SlotRange(local_slots[i]) \cap SlotRange(local_slots[j]) = {}
    /\ \A i \in DOMAIN local_slots, k \in DOMAIN fn_params :
          SlotRange(local_slots[i]) \cap SlotRange(ParamSlot(fn_params, k)) = {}
    /\ \A i \in DOMAIN local_slots :
          SlotRange(local_slots[i]) \subseteq 0..(fn_ctx.locals_last_index - 1)

\* a struct parameter, a struct local and a temporary after it
C26_Witness ==
    /\ fn_params # <<>> /\ fn_params[1] = StructInstance("P")
    /\ Len(local_slots) >= 2
    /\ local_slots[1].count = 2 /\ local_slots[2].count = 1

----------------------------------------------------------------------------
\* C27: after a successful finalize the code list has one entry per locally
\* defined function, and the i-th entry was lowered from the body of the
\* function whose local fn_index is i, whatever the order and number of the
\* definitions and of the imports between them.

LocalFns == {n \in DOMAIN fn_defs : fn_defs[n].local}

C27_OneCodePerLocalFunction ==
    m_pc = "done" =>
       /\ Len(wasm_module.codes) = Cardinality(LocalFns)
       /\ Len(wasm_module.codes) = wasm_module.functions
       /\ \A n \in LocalFns :
             /\ fn_defs[n].fn_index + 1 \in DOMAIN wasm_module.codes
             /\ wasm_module.codes[fn_defs[n].fn_index + 1].fn_index = fn_defs[n].fn_index
       /\ \A k \in DOMAIN wasm_module.codes :
             Cardinality({n \in LocalFns : fn_defs[n].fn_index = k - 1}) = 1

\* two local functions, g defined before f, and calls in the body of f
C27_Witness ==
    /\ m_pc = "done"
    /\ Len(wasm_module.codes) = 2
    /\ DOMAIN fn_defs = {"f", "g"}
    /\ fn_defs["g"].fn_index = 0 /\ fn_defs["f"].fn_index = 1
    /\ wasm_module.codes[2].calls # <<>>

----------------------------------------------------------------------------
\* C28: after any sequence of `let` declarations ctx.globals and the
\* WebAssembly global list have the same length, each GlobalDef.index is the
\* position of its WebAssembly global and the indices are pairwise distinct;
\* every initializer is empty until finalize lowers the globals, and after a
\* finalize that is not in inspect mode each holds the lowering, once, of its
\* own global's constant expression.

GlobalsLowered == m_pc \in {"debug", "done"} /\ ~inspect_mode

C28_GlobalsMatchWasmGlobals ==
    /\ Cardinality(DOMAIN globals) = Len(wasm_module.globals)
    /\ \A n \in DOMAIN globals : globals[n].index + 1 \in DOMAIN wasm_module.globals
    /\ \A n, m \in DOMAIN globals : globals[n].index = globals[m].index => n = m
    /\ ~GlobalsLowered =>
          \A i \in DOMAIN wasm_module.globals : wasm_module.globals[i].initial_value = <<>>
    /\ GlobalsLowered =>
          \A n \in DOMAIN globals :
             wasm_module.globals[globals[n].index + 1].initial_value =
                lower_expr(globals[n].value, data_size)

\* H declared before G with different values, finalize done in compile mode
C28_Witness ==
    /\ m_pc = "done" /\ ~inspect_mode
    /\ DOMAIN globals = {"G", "H"}
    /\ globals["H"].index = 0 /\ globals["H"].value.op = "U32Const"
    /\ globals["G"].index = 1 /\ globals["G"].value.op = "U32ConstLazy"
    /\ wasm_module.globals[1].initial_value # wasm_module.globals[2].initial_value

----------------------------------------------------------------------------
\* C29: data_size never decreases; it always equals the sum of the byte lengths
\* of the distinct strings in string_pool, and the pooled strings occupy the
\* pairwise disjoint ranges [offset, offset + length) laid out contiguously
\* from 0 in the order of their first use.

\* the position in str_uses of the first use of a pooled string
FirstUse(s) == CHOOSE i \in DOMAIN str_uses :
                  /\ str_uses[i].value = s
                  /\ \A j \in DOMAIN str_uses : str_uses[j].value = s => i <= j

PoolRange(s) == string_pool[s]..(string_pool[s] + Len(s) - 1)

PoolLaidOutInOrderOfFirstUse ==
    /\ data_size = SumLen(DOMAIN string_pool)
    /\ \A s \in DOMAIN string_pool :
          string_pool[s] = SumLen({t \in DOMAIN string_pool : FirstUse(t) < FirstUse(s)})
    /\ \A s, t \in DOMAIN string_pool : s # t => PoolRange(s) \cap PoolRange(t) = {}
    /\ UNION {PoolRange(s) : s \in DOMAIN string_pool} = 0..(data_size - 1)

C29_PoolContiguousAndGrowing ==
    /\ []PoolLaidOutInOrderOfFirstUse
    /\ [][data_size' >= data_size]_vars

\* "bc" was used first, then "a", then one of them again
C29_Witness ==
    /\ {"a", "bc"} \subseteq DOMAIN string_pool
    /\ string_pool["bc"] = 0 /\ string_pool["a"] = 2
    /\ Len(str_uses) > Cardinality(DOMAIN string_pool)
    /\ data_size >= 3

----------------------------------------------------------------------------
\* C30 as stated: every __DATA_SIZE__ of one compilation, in a global
\* initializer or in a function body, is lowered to the same constant, the final
\* data_size, whatever the order of the functions and whichever body pools a
\* string first.
C30_DataSizeSameEverywhere ==
    Finalized =>
       /\ \A n \in LazyGlobals :
             LoweredGlobal(n) = <<[op |-> "I32Const", value |-> data_size]>>
       /\ \A k \in DOMAIN wasm_module.codes :
             wasm_module.codes[k].lazy # <<>> =>
                wasm_module.codes[k].lazy = <<[op |-> "I32Const", value |-> data_size]>>

============================================================================
